---- MODULE Spec2Model ----
(***************************************************************************)
(* The CNTK binary reader: BinaryChunkDeserializer (the chunk store), its  *)
(* OffsetsTable, and the dense and sparse BinaryDataDeserializer codecs.   *)
(* The file on disk is a sequence of bytes; every multi-byte field is      *)
(* little-endian two's complement, as fread() into int32_t / int64_t sees  *)
(* it on the platforms the reader is built for.                            *)
(***************************************************************************)
EXTENDS Integers, Sequences, FiniteSets, TLC

\* ------------------------------------------------------------------ bounds
\* Largest number of chunks (batches) in a modelled file.
MaxChunks == 3
\* Largest number of sequences in one chunk.
MaxSeqs == 2

\* --------------------------------------------------------- program constants
\* int64_t m_versionNumber = 1;
m_versionNumber == 1
\* sizeof(DiskOffsetsTable) under #pragma pack(1): int64 + int32 + int32.
SizeofDiskOffsetsTable == 16
\* sizeof(int32_t), sizeof(int64_t), sizeof(float), sizeof(double)
SizeofInt32 == 4
SizeofInt64 == 8
SizeofFloat == 4
SizeofDouble == 8

\* ------------------------------------------------------------- small helpers
Min(a, b) == IF a <= b THEN a ELSE b
Max(a, b) == IF a >= b THEN a ELSE b

RECURSIVE Pow256(_)
Pow256(k) == IF k = 0 THEN 1 ELSE 256 * Pow256(k - 1)

RECURSIVE Flatten(_)
\* Concatenation of a sequence of sequences.
Flatten(ss) == IF ss = << >> THEN << >> ELSE Head(ss) \o Flatten(Tail(ss))

RECURSIVE SumSeq(_)
SumSeq(s) == IF s = << >> THEN 0 ELSE Head(s) + SumSeq(Tail(s))

RECURSIVE MaxSeq(_)
\* max over a sequence of naturals, 0 for the empty one (size_t numSamples = 0).
MaxSeq(s) == IF s = << >> THEN 0 ELSE Max(Head(s), MaxSeq(Tail(s)))

Zeros(n) == [k \in 1..n |-> 0]

\* ------------------------------------------------- little-endian integers
\* Byte k (0 = least significant) of the two's complement form of v.
ByteOf(v, k) ==
    IF v >= 0 THEN (v \div Pow256(k)) % 256
              ELSE 255 - ((((-v) - 1) \div Pow256(k)) % 256)

\* The 4 bytes an int32_t v is stored as.
LE32(v) == [k \in 1..4 |-> ByteOf(v, k - 1)]
\* The 8 bytes an int64_t v is stored as (|v| < 2^31 in every modelled file).
LE64(v) == LE32(v) \o [k \in 1..4 |-> IF v >= 0 THEN 0 ELSE 255]

\* The int32_t that 4 bytes hold.
Dec32(b) ==
    IF b[4] < 128
    THEN b[1] + 256 * b[2] + 65536 * b[3] + 16777216 * b[4]
    ELSE -((255 - b[1]) + 256 * (255 - b[2]) + 65536 * (255 - b[3])
           + 16777216 * (255 - b[4])) - 1
\* The int64_t that 8 bytes hold; the modelled files keep it in 32-bit range.
Dec64(b) == Dec32(SubSeq(b, 1, 4))

\* fread(buf, 1, n, f) at position pos: the bytes actually delivered, which
\* are fewer than n when end-of-file comes first.
Fread(bytes, pos, n) ==
    IF pos >= Len(bytes) \/ n <= 0 THEN << >>
    ELSE SubSeq(bytes, pos + 1, Min(pos + n, Len(bytes)))

ReadInt32(bytes, pos) == Dec32(Fread(bytes, pos, SizeofInt32))
ReadInt64(bytes, pos) == Dec64(Fread(bytes, pos, SizeofInt64))

\* --------------------------------------------------------- the file on disk
\* A stream header as the reader parses it: name bytes, matType (0 dense,
\* 1 sparse), the sparse storageType tag, elemType (0 float, 1 double) and
\* numCols.
StreamHeader(name, matType, storageType, elemType, numCols) ==
    [name |-> name, matType |-> matType, storageType |-> storageType,
     elemType |-> elemType, numCols |-> numCols]

\* [int32 len][len bytes name][int32 matType] then, for dense,
\* [int32 elemType][int32 numCols] and, for sparse,
\* [int32 storageType][int32 elemType][int32 numCols].
StreamHeaderBytes(h) ==
    LE32(Len(h.name)) \o h.name \o LE32(h.matType)
    \o (IF h.matType = 1 THEN LE32(h.storageType) ELSE << >>)
    \o LE32(h.elemType) \o LE32(h.numCols)

ElemSizeOf(h) == IF h.elemType = 1 THEN SizeofDouble ELSE SizeofFloat

\* The flattened (sample * numCols + col) row indices of the sequence with
\* file-wide ordinal g in a sparse stream: an empty slice, single samples and
\* a sequence whose first sample holds no value all occur.
SparseMenu == << <<1, 2>>, << >>, <<3>>, <<0>> >>
RowIndices(g) == SparseMenu[(g % Len(SparseMenu)) + 1]
\* A stream header that brings its own row indices, and the row indices of
\* sequence g in stream h.
WithMenu(h, menu) ==
    [name |-> h.name, matType |-> h.matType, storageType |-> h.storageType,
     elemType |-> h.elemType, numCols |-> h.numCols, menu |-> menu]
RowIndicesOf(h, g) ==
    IF "menu" \in DOMAIN h THEN h.menu[(g % Len(h.menu)) + 1] ELSE RowIndices(g)
\* A stream header whose chunks begin their values and row-index arrays with
\* elements no sequence owns (row indices lead), so that the first column
\* offset is Len(lead); and those leading row indices.
WithLead(h, menu, lead) ==
    [name |-> h.name, matType |-> h.matType, storageType |-> h.storageType,
     elemType |-> h.elemType, numCols |-> h.numCols, menu |-> menu, lead |-> lead]
LeadOf(h) == IF "lead" \in DOMAIN h THEN h.lead ELSE << >>

\* Opaque element bytes, never 0, so that they differ from a zero-filled tail.
ElemBytes(g, n) == [j \in 1..n |-> 1 + ((g * 5 + j) % 250)]

\* One stream's region of a chunk holding the sequences with ordinals gs.
\* dense:  numSequences rows of numCols elements.
\* sparse: int32 nnz, nnz values, nnz int32 row indices, numSequences + 1
\*         int32 column offsets.
StreamPayload(h, gs) ==
    IF h.matType = 0
    THEN Flatten([k \in 1..Len(gs) |-> ElemBytes(gs[k], h.numCols * ElemSizeOf(h))])
    ELSE LET rows    == [k \in 1..Len(gs) |-> RowIndicesOf(h, gs[k])]
             lead    == LeadOf(h)
             nnz     == Len(lead) + SumSeq([k \in 1..Len(gs) |-> Len(rows[k])])
             all     == lead \o Flatten(rows)
             colOffs == [k \in 1..(Len(gs) + 1) |->
                            Len(lead) + SumSeq([j \in 1..(k - 1) |-> Len(rows[j])])]
         IN  LE32(nnz)
             \o ElemBytes(0, Len(lead) * ElemSizeOf(h))
             \o Flatten([k \in 1..Len(gs) |->
                           ElemBytes(gs[k], Len(rows[k]) * ElemSizeOf(h))])
             \o Flatten([k \in 1..nnz |-> LE32(all[k])])
             \o Flatten([k \in 1..(Len(gs) + 1) |-> LE32(colOffs[k])])

\* Number of samples of sequence g in one stream, and over all streams.
StreamSamples(h, g) ==
    IF h.matType = 0 THEN 1
    ELSE LET r == RowIndicesOf(h, g)
         IN  IF r = << >> THEN 0 ELSE 1 + (r[Len(r)] \div h.numCols)
SeqSamples(streams, g) ==
    MaxSeq([k \in 1..Len(streams) |-> StreamSamples(streams[k], g)])

\* A file description: the version field, the stream headers, the number of
\* sequences of each chunk, and how many bytes are missing at the end (a
\* truncated copy).
FileDesc(version, streams, counts, cut) ==
    [version |-> version, streams |-> streams, counts |-> counts, cut |-> cut]

\* Ordinals of the sequences of chunk i (1-based): chunks number their
\* sequences consecutively through the file.
FirstOrdinal(d, i) == SumSeq([j \in 1..(i - 1) |-> d.counts[j]])
Ordinals(d, i) == [k \in 1..d.counts[i] |-> FirstOrdinal(d, i) + k - 1]

ChunkPayload(d, i) ==
    Flatten([k \in 1..Len(d.streams) |-> StreamPayload(d.streams[k], Ordinals(d, i))])
\* Byte offset of chunk i's payload, counted from the first payload byte.
ChunkOffset(d, i) == SumSeq([j \in 1..(i - 1) |-> Len(ChunkPayload(d, j))])
ChunkSamples(d, i) ==
    SumSeq([k \in 1..d.counts[i] |-> SeqSamples(d.streams, Ordinals(d, i)[k])])

\* [int64 offset][int32 numSequences][int32 numSamples]
DiskRecordBytes(d, i) ==
    LE64(ChunkOffset(d, i)) \o LE32(d.counts[i]) \o LE32(ChunkSamples(d, i))

HeaderBytes(d) ==
    LE64(d.version) \o LE64(Len(d.counts)) \o LE32(Len(d.streams))
    \o Flatten([k \in 1..Len(d.streams) |-> StreamHeaderBytes(d.streams[k])])

\* The size of the whole payload.
PayloadLen(d) == SumSeq([j \in 1..Len(d.counts) |-> Len(ChunkPayload(d, j))])

\* A file description whose offsets table has, on disk, one more record
\* after those of its chunks: the end of the payload, with no sequences and
\* no samples.
WithEndRecord(d) ==
    [version |-> d.version, streams |-> d.streams, counts |-> d.counts,
     cut |-> d.cut, endRecord |-> TRUE]
HasEndRecord(d) == "endRecord" \in DOMAIN d
EndRecordBytes(d) ==
    IF HasEndRecord(d) THEN LE64(PayloadLen(d)) \o LE32(0) \o LE32(0) ELSE << >>

WholeFile(d) ==
    HeaderBytes(d)
    \o Flatten([i \in 1..Len(d.counts) |-> DiskRecordBytes(d, i)])
    \o EndRecordBytes(d)
    \o Flatten([i \in 1..Len(d.counts) |-> ChunkPayload(d, i)])

\* The bytes on disk: the whole file less its last d.cut bytes.
FileBytes(d) == LET w == WholeFile(d) IN SubSeq(w, 1, Len(w) - d.cut)

\* Where the payload starts in the file.
PayloadStart(d) ==
    Len(HeaderBytes(d)) + Len(d.counts) * SizeofDiskOffsetsTable
    + Len(EndRecordBytes(d))

\* Stream headers used by the modelled files.
DenseA   == StreamHeader(<<97>>, 0, 0, 0, 1)
DenseDbl == StreamHeader(<<100>>, 0, 0, 1, 1)
SparseB  == StreamHeader(<<98>>, 1, 0, 0, 2)
DenseFat == StreamHeader(<<102>>, 0, 0, 0, 20)
DenseFour == StreamHeader(<<103>>, 0, 0, 0, 4)
\* numCols 5, row indices [2, 7 | 12]: column offsets [0, 2, 3].
SparseFive == WithMenu(StreamHeader(<<115>>, 1, 0, 0, 5), << <<2, 7>>, <<12>> >>)
\* Row indices that decrease, repeat, and are negative.
SparseOdd == WithMenu(StreamHeader(<<111>>, 1, 0, 0, 2), << <<1, 0>>, <<2, 2>>, <<-1>> >>)
\* numCols 3, one leading element with row index 3, then row indices
\* [4 | 5]: nnz 3, column offsets [1, 2, 3]; every index is in sample 1.
SparseLead == WithLead(StreamHeader(<<108>>, 1, 0, 0, 3), << <<4>>, <<5>> >>, <<3>>)
\* Headers with a tag the reader does not know.
BadKind          == StreamHeader(<<107>>, 2, 0, 0, 1)
BadElemDense     == StreamHeader(<<101>>, 0, 0, 2, 1)
SparseBadElem    == StreamHeader(<<109>>, 1, 0, 2, 2)
SparseBadStorage == StreamHeader(<<116>>, 1, 1, 0, 2)
\* A name with a zero byte in it.
DenseNul == StreamHeader(<<97, 0, 98>>, 0, 0, 0, 1)

\* Sequence counts of n chunks: the counts 0..MaxSeqs in turn, starting
\* after shift.
Ramp(n, shift) == [k \in 1..n |-> (k + shift) % (MaxSeqs + 1)]
CountVectors == {Ramp(n, shift) : n \in 0..MaxChunks, shift \in 0..MaxSeqs}
OneEach(n) == [k \in 1..n |-> 1]

\* The files the store is opened on:
\*  - 0..MaxChunks chunks of 0..MaxSeqs sequences, with a sparse and a dense
\*    stream;
\*  - other stream lists (none, dense float, dense double, sparse only);
\*  - a file written for another format version;
\*  - truncated copies: cut inside the last chunk, and cut so deep that the
\*    file ends before the last chunk's offset;
\*  - the worked examples of the two codecs, sparse data with row indices
\*    out of order, and sparse data whose column offsets do not start at 0;
\*  - a file with an end record on disk after the records of its chunks;
\*  - stream headers with unknown tags, and a name with a zero byte.
FileDescs ==
    {FileDesc(m_versionNumber, <<SparseB, DenseA>>, c, 0) : c \in CountVectors}
    \cup {FileDesc(m_versionNumber, s, OneEach(MaxChunks), 0) :
            s \in {<< >>, <<DenseA>>, <<DenseDbl>>, <<SparseB>>}}
    \cup {FileDesc(m_versionNumber + 1, <<DenseA>>, OneEach(1), 0)}
    \cup {FileDesc(m_versionNumber, <<SparseB, DenseA>>, OneEach(n), 3) :
            n \in {1, MaxChunks}}
    \cup {FileDesc(m_versionNumber, <<DenseFat>>, OneEach(2),
                    PayloadLen(FileDesc(m_versionNumber, <<DenseFat>>, OneEach(2), 0))
                    - 6)}
    \cup {FileDesc(m_versionNumber, <<SparseFive>>, <<2>>, 0),
          FileDesc(m_versionNumber, <<DenseFour>>, <<2>>, 0),
          FileDesc(m_versionNumber, <<SparseOdd>>, <<2, 1>>, 0),
          FileDesc(m_versionNumber, <<SparseLead>>, <<2>>, 0),
          WithEndRecord(FileDesc(m_versionNumber, <<DenseA>>, OneEach(2), 0))}
    \cup {FileDesc(m_versionNumber, s, OneEach(1), 0) :
            s \in {<<BadKind>>, <<SparseBadStorage, DenseA>>, <<SparseBadElem>>,
                   <<DenseA, BadElemDense, BadKind>>, <<DenseNul>>}}


\* ------------------------------------------------------------- the codecs
\* A value that stands for "no object" (nullptr, an empty unique_ptr).
Null == [null |-> TRUE]
\* A value undefined behaviour left behind.
Indeterminate == [indeterminate |-> TRUE]

\* BinaryDataDeserialzer::GetElemSizeBytes
GetElemSizeBytes(codec) ==
    IF codec.m_elemType = "tfloat" THEN SizeofFloat ELSE SizeofDouble

\* Reads and writes of int32_t inside a chunk buffer (0-based byte offset
\* off); InBuffer says whether the 4 bytes lie inside the allocation.
InBuffer(buffer, off) == off >= 0 /\ off + SizeofInt32 <= Len(buffer)
BufInt32(buffer, off) == Dec32(SubSeq(buffer, off + 1, off + SizeofInt32))
BufPutInt32(buffer, off, v) ==
    [k \in 1..Len(buffer) |->
        IF k > off /\ k <= off + SizeofInt32 THEN LE32(v)[k - off] ELSE buffer[k]]

\* A dense decode that steps by elements where it should step by bytes.
DenseGetSequencesForChunkByElements(codec, numSequences, startIndex, buffer, data) ==
    [result |-> [c \in 1..numSequences |->
                    [kind              |-> "dense",
                     m_data            |-> data + (c - 1) * codec.m_numCols,
                     m_id              |-> startIndex + (c - 1),
                     m_numberOfSamples |-> 1,
                     m_sampleLayout    |-> codec.m_numCols]],
     bytes  |-> numSequences * codec.m_numCols * GetElemSizeBytes(codec),
     buffer |-> buffer,
     fault  |-> "none"]

\* DenseBinaryDataDeserializer::GetSequencesForChunk. data is the byte
\* offset of the stream's region in the chunk buffer; the buffer is not read.
DenseGetSequencesForChunk(codec, numSequences, startIndex, buffer, data) ==
    LET elemSize == GetElemSizeBytes(codec)
    IN  [result |-> [c \in 1..numSequences |->
                        [kind              |-> "dense",
                         m_data            |-> data + (c - 1) * codec.m_numCols * elemSize,
                         m_id              |-> startIndex + (c - 1),
                         m_numberOfSamples |-> 1,
                         m_sampleLayout    |-> codec.m_numCols]],
         bytes  |-> numSequences * codec.m_numCols * elemSize,
         buffer |-> buffer,
         fault  |-> "none"]

RECURSIVE SparseRowsKeepRaw(_, _, _, _, _)
\* SparseRows without the fix-up of the index it has counted.
SparseRowsKeepRaw(numCols, rowOffsets, curRow, totalNnzCount, st) ==
    IF curRow >= totalNnzCount \/ st.fault # "none" THEN st
    ELSE LET off == rowOffsets + curRow * SizeofInt32 IN
         IF ~InBuffer(st.buffer, off)
         THEN [st EXCEPT !.fault = "out_of_bounds"]
         ELSE LET r == BufInt32(st.buffer, off) IN
              IF numCols = 0 THEN [st EXCEPT !.fault = "division_by_zero"]
              ELSE IF r < 0 THEN [st EXCEPT !.fault = "bad_alloc"]
              ELSE LET sampleNum == r \div numCols
                       grown == st.nnzCounts \o
                                Zeros(Max(0, sampleNum + 1 - Len(st.nnzCounts)))
                   IN  SparseRowsKeepRaw(numCols, rowOffsets, curRow + 1, totalNnzCount,
                          [buffer    |-> st.buffer,
                           nnzCounts |-> [grown EXCEPT ![sampleNum + 1] = @ + 1],
                           fault     |-> "none"])

RECURSIVE SparseRowsSetOne(_, _, _, _, _)
\* SparseRows with the sample's count set to 1 where it is to be incremented.
SparseRowsSetOne(numCols, rowOffsets, curRow, totalNnzCount, st) ==
    IF curRow >= totalNnzCount \/ st.fault # "none" THEN st
    ELSE LET off == rowOffsets + curRow * SizeofInt32 IN
         IF ~InBuffer(st.buffer, off)
         THEN [st EXCEPT !.fault = "out_of_bounds"]
         ELSE LET r == BufInt32(st.buffer, off) IN
              IF numCols = 0 THEN [st EXCEPT !.fault = "division_by_zero"]
              ELSE IF r < 0 THEN [st EXCEPT !.fault = "bad_alloc"]
              ELSE LET sampleNum == r \div numCols
                       grown == st.nnzCounts \o
                                Zeros(Max(0, sampleNum + 1 - Len(st.nnzCounts)))
                   IN  SparseRowsSetOne(numCols, rowOffsets, curRow + 1, totalNnzCount,
                          [buffer    |-> BufPutInt32(st.buffer, off, r % numCols),
                           nnzCounts |-> [grown EXCEPT ![sampleNum + 1] = 1],
                           fault     |-> "none"])

RECURSIVE SparseRows(_, _, _, _, _)
\* The inner loop over curRow of one sequence: st carries the buffer, the
\* sequence's m_nnzCounts and the fault met so far.
\*   size_t sampleNum = rowOffsets[curRow] / m_numCols;
\*   while (m_nnzCounts.size() < sampleNum + 1) m_nnzCounts.push_back(0);
\*   m_nnzCounts[sampleNum] += 1;  rowOffsets[curRow] %= m_numCols;
SparseRows(numCols, rowOffsets, curRow, totalNnzCount, st) ==
    IF curRow >= totalNnzCount \/ st.fault # "none" THEN st
    ELSE LET off == rowOffsets + curRow * SizeofInt32 IN
         IF ~InBuffer(st.buffer, off)
         THEN [st EXCEPT !.fault = "out_of_bounds"]
         ELSE LET r == BufInt32(st.buffer, off) IN
              IF numCols = 0 THEN [st EXCEPT !.fault = "division_by_zero"]
              \* an int32 < 0 converts to a size_t near 2^64: the while loop
              \* grows m_nnzCounts until the allocation fails
              ELSE IF r < 0 THEN [st EXCEPT !.fault = "bad_alloc"]
              ELSE LET sampleNum == r \div numCols
                       grown == st.nnzCounts \o
                                Zeros(Max(0, sampleNum + 1 - Len(st.nnzCounts)))
                   IN  SparseRows(numCols, rowOffsets, curRow + 1, totalNnzCount,
                          [buffer    |-> BufPutInt32(st.buffer, off, r % numCols),
                           nnzCounts |-> [grown EXCEPT ![sampleNum + 1] = @ + 1],
                           fault     |-> "none"])

RECURSIVE SparseCols(_, _, _, _, _, _, _, _)
\* The outer loop over colIndex; values and rowOffsets are the advancing
\* pointers (byte offsets), acc the result so far.
SparseCols(codec, numSequences, startIndex, colOffsets, colIndex, values, rowOffsets, acc) ==
    IF colIndex >= numSequences \/ acc.fault # "none" THEN acc
    ELSE LET elemSize == GetElemSizeBytes(codec)
             lo == colOffsets + colIndex * SizeofInt32
             hi == colOffsets + (colIndex + 1) * SizeofInt32
         IN
         IF ~(InBuffer(acc.buffer, lo) /\ InBuffer(acc.buffer, hi))
         THEN [acc EXCEPT !.fault = "out_of_bounds"]
         ELSE LET m_totalNnzCount == BufInt32(acc.buffer, hi) - BufInt32(acc.buffer, lo)
                  st == SparseRows(codec.m_numCols, rowOffsets, 0, m_totalNnzCount,
                           [buffer |-> acc.buffer, nnzCounts |-> << >>,
                            fault |-> "none"])
                  sequence ==
                      [kind              |-> "sparse",
                       m_id              |-> startIndex + colIndex,
                       m_totalNnzCount   |-> m_totalNnzCount,
                       m_data            |-> values,
                       m_indices         |-> rowOffsets,
                       m_nnzCounts       |-> st.nnzCounts,
                       m_numberOfSamples |-> Len(st.nnzCounts)]
              IN  SparseCols(codec, numSequences, startIndex, colOffsets,
                     colIndex + 1,
                     values + m_totalNnzCount * elemSize,
                     rowOffsets + m_totalNnzCount * SizeofInt32,
                     [result |-> Append(acc.result, sequence),
                      bytes  |-> acc.bytes,
                      buffer |-> st.buffer,
                      fault  |-> st.fault])

\* A sparse decode that counts one column offset per sequence in the bytes
\* it reports.
SparseGetSequencesForChunkShort(codec, numSequences, startIndex, buffer, data) ==
    LET elemSize == GetElemSizeBytes(codec) IN
    IF ~InBuffer(buffer, data)
    THEN [result |-> << >>, bytes |-> 0, buffer |-> buffer, fault |-> "out_of_bounds"]
    ELSE LET totalNNz == BufInt32(buffer, data)
             values     == data + SizeofInt32
             rowOffsets == values + elemSize * totalNNz
             colOffsets == rowOffsets + totalNNz * SizeofInt32
         IN  SparseCols(codec, numSequences, startIndex, colOffsets, 0, values,
                rowOffsets,
                [result |-> << >>,
                 bytes  |-> SizeofInt32 + totalNNz * (elemSize + SizeofInt32)
                            + numSequences * SizeofInt32,
                 buffer |-> buffer,
                 fault  |-> IF totalNNz < 0 THEN "out_of_bounds" ELSE "none"])

\* SparseBinaryDataDeserializer::GetSequencesForChunk. The row indices are
\* rewritten in place, so the buffer is part of the result.
SparseGetSequencesForChunk(codec, numSequences, startIndex, buffer, data) ==
    LET elemSize == GetElemSizeBytes(codec) IN
    IF ~InBuffer(buffer, data)
    THEN [result |-> << >>, bytes |-> 0, buffer |-> buffer, fault |-> "out_of_bounds"]
    ELSE LET totalNNz == BufInt32(buffer, data)
             values     == data + SizeofInt32
             rowOffsets == values + elemSize * totalNNz
             colOffsets == rowOffsets + totalNNz * SizeofInt32
         IN  SparseCols(codec, numSequences, startIndex, colOffsets, 0, values,
                rowOffsets,
                [result |-> << >>,
                 bytes  |-> SizeofInt32 + totalNNz * (elemSize + SizeofInt32)
                            + (numSequences + 1) * SizeofInt32,
                 buffer |-> buffer,
                 fault  |-> IF totalNNz < 0 THEN "out_of_bounds" ELSE "none"])

\* The virtual call BinaryDataDeserialzer::GetSequencesForChunk.
CodecGetSequencesForChunk(codec, numSequences, startIndex, buffer, data) ==
    IF codec.m_matType = "dense"
    THEN DenseGetSequencesForChunk(codec, numSequences, startIndex, buffer, data)
    ELSE SparseGetSequencesForChunk(codec, numSequences, startIndex, buffer, data)


\* ------------------------------------------------------- the offsets table
RECURSIVE StartIndexLoopCountingDown(_, _, _, _, _)
\* The loop with the counts subtracted from sequencesSeen.
StartIndexLoopCountingDown(c, sequencesSeen, m_startIndex, numBatches, diskOffsetsTable) ==
    IF c < numBatches
    THEN StartIndexLoopCountingDown(c + 1,
                        sequencesSeen - diskOffsetsTable[c].numSequences,
                        [m_startIndex EXCEPT ![c] = sequencesSeen],
                        numBatches, diskOffsetsTable)
    ELSE m_startIndex

RECURSIVE StartIndexLoop(_, _, _, _, _)
\* The loop of OffsetsTable::Initialize:
\*   for (int64_t c = 1; c < m_numBatches; c++)
\*   { m_startIndex[c] = sequencesSeen;
\*     sequencesSeen += m_diskOffsetsTable[c].numSequences; }
StartIndexLoop(c, sequencesSeen, m_startIndex, numBatches, diskOffsetsTable) ==
    IF c < numBatches
    THEN StartIndexLoop(c + 1, sequencesSeen + diskOffsetsTable[c].numSequences,
                        [m_startIndex EXCEPT ![c] = sequencesSeen],
                        numBatches, diskOffsetsTable)
    ELSE m_startIndex

\* OffsetsTable::OffsetsTable and OffsetsTable::Initialize: resize() fills
\* m_startIndex with zeros, then the loop runs with sequencesSeen = 0.
OffsetsTable(numBatches, offsetsTable) ==
    [m_numBatches       |-> numBatches,
     m_diskOffsetsTable |-> offsetsTable,
     m_startIndex       |-> StartIndexLoop(1, 0, [c \in 0..(numBatches - 1) |-> 0],
                                           numBatches, offsetsTable)]

\* The accessors. An index outside the arrays is undefined behaviour, which
\* the callers below decide with InTable / InStartIndex before they use one.
InTable(t, index) == index \in DOMAIN t.m_diskOffsetsTable
InStartIndex(t, index) == index \in DOMAIN t.m_startIndex
GetOffset(t, index) == t.m_diskOffsetsTable[index].offset
GetNumSequences(t, index) == t.m_diskOffsetsTable[index].numSequences
GetNumSamples(t, index) == t.m_diskOffsetsTable[index].numSamples
GetStartIndex(t, index) == t.m_startIndex[index]
\* A size_t is modelled by the int64_t with the same 64 bits: the values
\* 2^63 .. 2^64 - 1 appear as the negative numbers -2^63 .. -1, so a
\* conversion between the two types changes nothing and TopBitSet tells a
\* wrapped-around value.
TopBitSet(v) == v < 0
\* GetChunkSize with the subtraction the wrong way round.
GetChunkSizeReversed(t, index) ==
    t.m_diskOffsetsTable[index].offset - t.m_diskOffsetsTable[index + 1].offset

\* size_t GetChunkSize(size_t index)
GetChunkSize(t, index) ==
    t.m_diskOffsetsTable[index + 1].offset - t.m_diskOffsetsTable[index].offset

\* One DiskOffsetsTable record read at file position pos; a record the file
\* does not hold completely keeps the uninitialized contents of the new[]
\* array, here the value garbage.
DiskRecordAt(bytes, pos, garbage) ==
    IF pos + SizeofDiskOffsetsTable <= Len(bytes)
    THEN [offset       |-> ReadInt64(bytes, pos),
          numSequences |-> ReadInt32(bytes, pos + SizeofInt64),
          numSamples   |-> ReadInt32(bytes, pos + SizeofInt64 + SizeofInt32)]
    ELSE garbage

\* A ReadOffsetsTable that synthesizes the extra record whatever the range.
ReadOffsetsTableAlwaysSynthetic(bytes, startOffset, numBatches, storeNumBatches, offsetStart, garbage) ==
    LET startPos == startOffset * SizeofDiskOffsetsTable + offsetStart
        offsetsTable ==
            [c \in 0..numBatches |->
                IF c < numBatches
                THEN DiskRecordAt(bytes, startPos + c * SizeofDiskOffsetsTable, garbage)
                ELSE [offset |-> Len(bytes), numSequences |-> 0, numSamples |-> 0]]
    IN  [table |-> OffsetsTable(numBatches, offsetsTable), pos |-> Len(bytes)]

\* BinaryChunkDeserializer::ReadOffsetsTable(infile, startOffset, numBatches):
\* the table it builds and the position it leaves the file at. storeNumBatches
\* is the member m_numBatches, offsetStart the member m_offsetStart.
ReadOffsetsTable(bytes, startOffset, numBatches, storeNumBatches, offsetStart, garbage) ==
    LET startPos == startOffset * SizeofDiskOffsetsTable + offsetStart
        afterRead == startPos + Len(Fread(bytes, startPos, numBatches * SizeofDiskOffsetsTable))
        atEnd == startOffset + numBatches = storeNumBatches
        last == IF atEnd
                THEN [offset |-> Len(bytes), numSequences |-> 0, numSamples |-> 0]
                ELSE DiskRecordAt(bytes, afterRead, garbage)
        offsetsTable ==
            [c \in 0..numBatches |->
                IF c < numBatches
                THEN DiskRecordAt(bytes, startPos + c * SizeofDiskOffsetsTable, garbage)
                ELSE last]
    IN  [table |-> OffsetsTable(numBatches, offsetsTable),
         pos   |-> IF atEnd THEN Len(bytes)
                   ELSE afterRead + Len(Fread(bytes, afterRead, SizeofDiskOffsetsTable))]

\* ------------------------------------------------------- header parsing
\* The errors Initialize raises: LogicError("The reader version is ...") and
\* RuntimeError("Unknown matrix type ..." / "... element type ..." / "...
\* matrix type ... only 0 (sparse_csc) is valid").
FormatVersionMismatch == "LogicError: reader version differs from file version"
UnsupportedEncoding == "RuntimeError: unknown matrix, storage or element type"

\* msra::strfun::utf16 of the NUL-terminated tempName: the bytes up to the
\* first 0 byte.
Utf16(name) ==
    LET z == {k \in 1..Len(name) : name[k] = 0}
    IN  IF z = {} THEN name
        ELSE SubSeq(name, 1, (CHOOSE k \in z : \A j \in z : k <= j) - 1)

\* vector::resize(n): the first n elements kept, new ones empty.
Resize(v, n) == [k \in 0..(n - 1) |-> IF k \in DOMAIN v THEN v[k] ELSE Null]

ElementTypeOf(tag) == IF tag = 0 THEN "tfloat" ELSE "tdouble"

\* A dense constructor that takes every element type tag but 0 for double.
DenseBinaryDataDeserializerAnyElem(bytes, pos) ==
    [codec |-> [m_matType  |-> "dense",
                m_elemType |-> ElementTypeOf(ReadInt32(bytes, pos)),
                m_numCols  |-> ReadInt32(bytes, pos + SizeofInt32)],
     pos   |-> pos + 2 * SizeofInt32,
     err   |-> "none"]

\* DenseBinaryDataDeserializer(FILE*) and SparseBinaryDataDeserializer(FILE*)
\* reading at pos: the codec, the new position and the error raised.
DenseBinaryDataDeserializer(bytes, pos) ==
    LET elemType == ReadInt32(bytes, pos) IN
    IF elemType \notin {0, 1}
    THEN [codec |-> Null, pos |-> pos + SizeofInt32, err |-> UnsupportedEncoding]
    ELSE [codec |-> [m_matType  |-> "dense",
                     m_elemType |-> ElementTypeOf(elemType),
                     m_numCols  |-> ReadInt32(bytes, pos + SizeofInt32)],
          pos   |-> pos + 2 * SizeofInt32,
          err   |-> "none"]

SparseBinaryDataDeserializer(bytes, pos) ==
    LET storageType == ReadInt32(bytes, pos)
        elemType    == ReadInt32(bytes, pos + SizeofInt32)
    IN
    IF storageType # 0
    THEN [codec |-> Null, pos |-> pos + SizeofInt32, err |-> UnsupportedEncoding]
    ELSE IF elemType \notin {0, 1}
    THEN [codec |-> Null, pos |-> pos + 2 * SizeofInt32, err |-> UnsupportedEncoding]
    ELSE [codec |-> [m_matType  |-> "sparse_csc",
                     m_elemType |-> ElementTypeOf(elemType),
                     m_numCols  |-> ReadInt32(bytes, pos + 2 * SizeofInt32)],
          pos   |-> pos + 3 * SizeofInt32,
          err   |-> "none"]

RECURSIVE ReadStreams(_, _, _, _, _)
\* The loop over the inputs in Initialize; st carries the file position, the
\* two vectors and the error raised.
ReadStreams(bytes, rename, c, numInputs, st) ==
    IF c >= numInputs \/ st.err # "none" THEN st
    ELSE LET len     == ReadInt32(bytes, st.pos)
             wname   == Utf16(Fread(bytes, st.pos + SizeofInt32, len))
             m_name  == IF wname \notin DOMAIN rename THEN wname ELSE rename[wname]
             typePos == st.pos + SizeofInt32 + len
             matType == ReadInt32(bytes, typePos)
             made    == IF matType = 0
                        THEN DenseBinaryDataDeserializer(bytes, typePos + SizeofInt32)
                        ELSE IF matType = 1
                        THEN SparseBinaryDataDeserializer(bytes, typePos + SizeofInt32)
                        ELSE [codec |-> Null, pos |-> typePos + SizeofInt32,
                              err |-> UnsupportedEncoding]
         IN  IF made.err # "none"
             THEN [st EXCEPT !.pos = made.pos, !.err = made.err]
             ELSE ReadStreams(bytes, rename, c + 1, numInputs,
                    [pos           |-> made.pos,
                     deserializers |-> [st.deserializers EXCEPT ![c] = made.codec],
                     streams       |-> [st.streams EXCEPT ![c] =
                                          [m_id           |-> c,
                                           m_name         |-> m_name,
                                           m_elementType  |-> made.codec.m_elemType,
                                           m_storageType  |-> made.codec.m_matType,
                                           m_sampleLayout |-> made.codec.m_numCols]],
                     err           |-> "none"])


\* ---------------------------------------------------------------- state
VARIABLES
    disk,             \* the file: its description and its bytes
    status,           \* "alive", "destroyed" (constructor threw) or "undefined"
                      \* (the process aborted or ran into undefined behaviour)
    m_file,           \* Null, or the open handle [pos |-> file position]
    m_offsetStart,
    m_dataStart,
    m_numBatches,
    m_numInputs,
    m_streams,
    m_deserializers,
    m_offsetsTable,   \* Null or an OffsetsTable
    held,             \* the Chunk the caller holds a reference to, or Null
    heldAsReturned,   \* history: held as GetChunk returned it
    lastCall,         \* the last call made: [op, arg, err, val]
    threads           \* the threads of an external scheduler that share the
                      \* store: its locking discipline, who holds its lock,
                      \* and where each thread is in its call

vars == <<disk, status, m_file, m_offsetStart, m_dataStart, m_numBatches,
          m_numInputs, m_streams, m_deserializers, m_offsetsTable, held,
          heldAsReturned, lastCall, threads>>

\* The scheduler's threads, and a thread that is in no call and holds no
\* chunk: pc is "idle", "seeked" (inside ReadChunk, after its seek) or
\* "returned" (GetChunk has returned chunk); c and parse are how far the
\* thread has decoded its chunk.
Threads == {"A", "B", "C"}
NoThread == "none"
IdleThread ==
    [pc |-> "idle", chunkId |-> 0, underLock |-> FALSE, chunk |-> [null |-> TRUE],
     c |-> 0, parse |-> [null |-> TRUE]]

Call(op, arg, err, val) == [op |-> op, arg |-> arg, err |-> err, val |-> val]
\* The arg of a call that takes none.
NoArg == [noarg |-> TRUE]

\* Rename maps handed to the constructor: none, and one that renames the
\* stream "d" to "x".
Renames == {<< >>, [n \in {<<100>>} |-> <<120>>]}

\* Contents an uninitialized DiskOffsetsTable record may hold.
GarbageRecords ==
    {[offset |-> 0, numSequences |-> 0, numSamples |-> 0],
     [offset |-> -1, numSequences |-> 1, numSamples |-> -1]}
\* Values the uninitialized members m_numBatches (int64_t) and m_numInputs
\* (int32_t) may hold.
GarbageInt64 == {-1, 0, 1}
GarbageInt32 == {-1, 0}

\* The private constructor BinaryChunkDeserializer(const wstring& filename):
\* m_file(nullptr), m_offsetStart(0), m_dataStart(0), m_traceLevel(0); the
\* vectors and the unique_ptr are empty, m_numBatches and m_numInputs are
\* not initialized.
Init ==
    /\ disk \in {[desc |-> d, bytes |-> FileBytes(d)] : d \in FileDescs}
    /\ status = "alive"
    /\ m_file = Null
    /\ m_offsetStart = 0
    /\ m_dataStart = 0
    /\ m_numBatches \in GarbageInt64
    /\ m_numInputs \in GarbageInt32
    /\ m_streams = << >>
    /\ m_deserializers = << >>
    /\ m_offsetsTable = Null
    /\ held = Null
    /\ lastCall = Call("BinaryChunkDeserializer", NoArg, "none", Null)
    /\ heldAsReturned = Null
    /\ threads = [useLock |-> TRUE, holder |-> NoThread,
                  of |-> [t \in Threads |-> IdleThread]]

\* BinaryChunkDeserializer::Initialize(rename). It runs as the second half
\* of the public constructor, where an exception destroys the object (the
\* destructor closes the file), and it can be called on a constructed object
\* by the friend CNTKBinaryReaderTestRunner, where the object survives.
Initialize(rename, garbage) ==
    /\ status = "alive"
    /\ LET bytes == disk.bytes
           versionNumber == ReadInt64(bytes, 0)
       IN
       IF versionNumber # m_versionNumber
       THEN /\ lastCall' = Call("Initialize", NoArg, FormatVersionMismatch, Null)
            /\ \E survives \in BOOLEAN :
                 /\ status' = IF survives THEN "alive" ELSE "destroyed"
                 /\ m_file' = IF survives THEN [pos |-> SizeofInt64] ELSE Null
            /\ UNCHANGED <<m_offsetStart, m_dataStart, m_numBatches, m_numInputs,
                           m_streams, m_deserializers, m_offsetsTable>>
       ELSE LET numBatches == ReadInt64(bytes, SizeofInt64)
                numInputs  == ReadInt32(bytes, 2 * SizeofInt64)
                st == ReadStreams(bytes, rename, 0, numInputs,
                         [pos           |-> 2 * SizeofInt64 + SizeofInt32,
                          streams       |-> Resize(m_streams, numInputs),
                          deserializers |-> Resize(m_deserializers, numInputs),
                          err           |-> "none"])
                offsetStart == st.pos
                read == ReadOffsetsTable(bytes, 0, numBatches, numBatches,
                                         offsetStart, garbage)
            IN  /\ m_numBatches' = numBatches
                /\ m_numInputs' = numInputs
                /\ m_streams' = st.streams
                /\ m_deserializers' = st.deserializers
                /\ IF st.err # "none"
                   THEN /\ lastCall' = Call("Initialize", NoArg, st.err, Null)
                        /\ \E survives \in BOOLEAN :
                             /\ status' = IF survives THEN "alive" ELSE "destroyed"
                             /\ m_file' = IF survives THEN [pos |-> st.pos] ELSE Null
                        /\ UNCHANGED <<m_offsetStart, m_dataStart, m_offsetsTable>>
                   ELSE /\ lastCall' = Call("Initialize", NoArg, "none", Null)
                        /\ status' = "alive"
                        /\ m_offsetStart' = offsetStart
                        /\ m_dataStart' = offsetStart + numBatches * SizeofDiskOffsetsTable
                        /\ m_offsetsTable' = read.table
                        /\ m_file' = [pos |-> read.pos]
    /\ UNCHANGED <<threads, disk, held, heldAsReturned>>

\* ------------------------------------------------------------- the Chunk
\* BinaryDataChunk: the chunk id, the id of its first sequence, its number of
\* sequences, the buffer it owns, and m_data, the decoded sequences of every
\* stream (empty until the chunk is parsed).
BinaryDataChunk(chunkId, startSequence, numSequences, buffer) ==
    [m_chunkId       |-> chunkId,
     m_startSequence |-> startSequence,
     m_numSequences  |-> numSequences,
     m_buffer        |-> buffer,
     m_data          |-> << >>]

RECURSIVE ParseStreams(_, _, _, _)
\* Streams are laid out one after the other: stream c is decoded at the byte
\* offset the streams before it consumed.
ParseStreams(chunk, deserializers, c, st) ==
    IF c \notin DOMAIN deserializers \/ st.fault # "none" THEN st
    ELSE LET r == CodecGetSequencesForChunk(deserializers[c], chunk.m_numSequences,
                     chunk.m_startSequence, st.buffer, st.bytesProcessed)
         IN  ParseStreams(chunk, deserializers, c + 1,
                [data           |-> Append(st.data, r.result),
                 bytesProcessed |-> st.bytesProcessed + r.bytes,
                 buffer         |-> r.buffer,
                 fault          |-> r.fault])

\* ParseChunk: every stream's codec run over the chunk's buffer.
ParseChunk(chunk, deserializers) ==
    ParseStreams(chunk, deserializers, 0,
        [data |-> << >>, bytesProcessed |-> 0, buffer |-> chunk.m_buffer,
         fault |-> "none"])

\* The chunk after it has made sure it is parsed (parsed once, then reused),
\* and the fault parsing met.
Parsed(chunk, deserializers) ==
    IF chunk.m_data # << >> THEN [chunk |-> chunk, fault |-> "none"]
    ELSE LET p == ParseChunk(chunk, deserializers)
         IN  [chunk |-> [chunk EXCEPT !.m_data = p.data, !.m_buffer = p.buffer],
              fault |-> p.fault]

\* Chunk::GetSequence(sequenceId, result) on a parsed chunk: one decoded
\* sequence per stream.
SequenceOf(chunk, sequenceId) ==
    [k \in 1..Len(chunk.m_data) |->
        chunk.m_data[k][sequenceId - chunk.m_startSequence + 1]]

\* ---------------------------------------------------- the store's reads
\* What undefined behaviour (a null or out-of-bounds access) can look like.
UndefinedOutcomes == {"crash", "returns garbage"}

\* ReadChunk with the seek to the chunk's offset alone.
ReadChunkFromFileStart(bytes, file, dataStart, table, chunkId) ==
    LET target    == GetOffset(table, chunkId)
        seekPos   == IF target >= 0 THEN target ELSE file.pos
        chunkSize == GetChunkSize(table, chunkId)
        got       == Fread(bytes, seekPos, chunkSize)
    IN  IF TopBitSet(chunkSize)
        THEN [err |-> "bad_alloc", buffer |-> << >>, pos |-> seekPos]
        ELSE [err    |-> "none",
              buffer |-> got \o Zeros(chunkSize - Len(got)),
              pos    |-> seekPos + Len(got)]

\* BinaryChunkDeserializer::ReadChunk(chunkId), for a chunkId inside the
\* table: the seek, the allocation of chunkSize zeroed bytes, and the fread
\* whose return value is not looked at.
ReadChunk(bytes, file, dataStart, table, chunkId) ==
    LET target    == dataStart + GetOffset(table, chunkId)
        \* a seek to a negative position fails and leaves the position
        seekPos   == IF target >= 0 THEN target ELSE file.pos
        chunkSize == GetChunkSize(table, chunkId)
        got       == Fread(bytes, seekPos, chunkSize)
    IN  IF TopBitSet(chunkSize)
        THEN [err |-> "bad_alloc", buffer |-> << >>, pos |-> seekPos]
        ELSE [err    |-> "none",
              buffer |-> got \o Zeros(chunkSize - Len(got)),
              pos    |-> seekPos + Len(got)]

\* Whether GetChunk(chunkId) stays inside m_diskOffsetsTable (chunkId and
\* chunkId + 1) and m_startIndex.
ChunkIdDefined(table, chunkId) ==
    /\ table # Null
    /\ InTable(table, chunkId)
    /\ InTable(table, chunkId + 1)
    /\ InStartIndex(table, chunkId)

\* BinaryChunkDeserializer::GetChunk(chunkId) for a defined chunkId.
GetChunkRead(bytes, file, dataStart, table, chunkId) ==
    LET r == ReadChunk(bytes, file, dataStart, table, chunkId)
    IN  [err   |-> r.err,
         pos   |-> r.pos,
         chunk |-> IF r.err # "none" THEN Null
                   ELSE BinaryDataChunk(chunkId, GetStartIndex(table, chunkId),
                                        GetNumSequences(table, chunkId), r.buffer)]

\* A GetChunk that hands out the chunk already materialized for the same id
\* instead of reading the file again.
GetChunkCached(bytes, file, dataStart, table, chunkId) ==
    IF held # Null /\ held.m_chunkId = chunkId
    THEN [err |-> "none", pos |-> file.pos, chunk |-> held]
    ELSE GetChunkRead(bytes, file, dataStart, table, chunkId)

GetChunkResult(bytes, file, dataStart, table, chunkId) ==
    GetChunkRead(bytes, file, dataStart, table, chunkId)

\* A SequenceDescription numbered within its chunk rather than from the
\* chunk's start index.
SequenceDescriptionLocalId(chunk, table, chunkId, c) ==
    LET temp == SequenceOf(chunk, GetStartIndex(table, chunkId) + c)
    IN  [m_id              |-> c,
         m_numberOfSamples |-> MaxSeq([i \in 1..Len(temp) |-> temp[i].m_numberOfSamples]),
         m_chunkId         |-> chunkId,
         m_isValid         |-> TRUE,
         m_key             |-> [major |-> c, minor |-> 0]]

\* One entry of GetSequencesForChunk's result, for local index c.
SequenceDescription(chunk, table, chunkId, c) ==
    LET startId == GetStartIndex(table, chunkId)
        temp    == SequenceOf(chunk, GetStartIndex(table, chunkId) + c)
    IN  [m_id              |-> startId + c,
         m_numberOfSamples |-> MaxSeq([i \in 1..Len(temp) |-> temp[i].m_numberOfSamples]),
         m_chunkId         |-> chunkId,
         m_isValid         |-> TRUE,
         m_key             |-> [major |-> startId + c, minor |-> 0]]

\* ChunkDescriptions with the two counts in each other's place.
ChunkDescriptionsSwapped(numBatches, table) ==
    [k \in 1..numBatches |->
        [m_id                |-> k - 1,
         m_numberOfSamples   |-> GetNumSequences(table, k - 1),
         m_numberOfSequences |-> GetNumSamples(table, k - 1)]]

\* BinaryChunkDeserializer::GetChunkDescriptions(), with the table loaded.
ChunkDescriptions(numBatches, table) ==
    [k \in 1..numBatches |->
        [m_id                |-> k - 1,
         m_numberOfSamples   |-> GetNumSamples(table, k - 1),
         m_numberOfSequences |-> GetNumSequences(table, k - 1)]]

\* Chunk ids the callers ask for: every valid one and ids past the end.
ChunkIds == 0..MaxChunks

\* --------------------------------------------------------------- actions
\* A GetChunkDescriptions that seeks to the offsets records in the file.
GetChunkDescriptionsSeeking ==
    /\ status = "alive"
    /\ m_offsetsTable # Null
    /\ lastCall' = Call("GetChunkDescriptions", NoArg, "none",
                        ChunkDescriptions(m_numBatches, m_offsetsTable))
    /\ m_file' = [pos |-> m_offsetStart]
    /\ UNCHANGED <<threads, disk, status, m_offsetStart, m_dataStart, m_numBatches,
                   m_numInputs, m_streams, m_deserializers, m_offsetsTable,
                   held, heldAsReturned>>

\* GetChunkDescriptions(). Without a table, assert(m_offsetsTable) aborts a
\* debug build; a release build goes on with whatever m_numBatches holds:
\* reserve() of a negative count throws length_error, a count of 0 returns
\* an empty list, and a positive count dereferences the null table.
GetChunkDescriptions ==
    /\ status = "alive"
    /\ \E debug \in BOOLEAN, u \in UndefinedOutcomes :
         LET n == m_numBatches IN
         IF m_offsetsTable = Null /\ debug
         THEN /\ lastCall' = Call("GetChunkDescriptions", NoArg, "assertion failed", Null)
              /\ status' = "aborted"
         ELSE IF n < 0
         THEN /\ lastCall' = Call("GetChunkDescriptions", NoArg, "length_error", Null)
              /\ status' = "alive"
         ELSE IF n > 0 /\ (m_offsetsTable = Null
                           \/ \E c \in 0..(n - 1) : ~InTable(m_offsetsTable, c))
         THEN /\ lastCall' = Call("GetChunkDescriptions", NoArg, u, Indeterminate)
              /\ status' = "undefined"
         ELSE /\ lastCall' = Call("GetChunkDescriptions", NoArg, "none",
                                   ChunkDescriptions(n, m_offsetsTable))
              /\ status' = "alive"
    /\ UNCHANGED <<threads, disk, m_file, m_offsetStart, m_dataStart, m_numBatches,
                   m_numInputs, m_streams, m_deserializers, m_offsetsTable,
                   held, heldAsReturned>>

\* A GetChunk that loads the offsets records from chunkId on before it reads.
GetChunkReloading(chunkId) ==
    /\ status = "alive"
    /\ ChunkIdDefined(m_offsetsTable, chunkId)
    /\ LET r == GetChunkResult(disk.bytes, m_file, m_dataStart, m_offsetsTable, chunkId)
       IN  /\ lastCall' = Call("GetChunk", chunkId, r.err, r.chunk)
           /\ m_file' = [pos |-> r.pos]
    /\ m_offsetsTable' =
          ReadOffsetsTable(disk.bytes, chunkId, m_numBatches - chunkId, m_numBatches,
                           m_offsetStart, Null).table
    /\ UNCHANGED <<threads, disk, status, m_offsetStart, m_dataStart, m_numBatches, m_numInputs,
                   m_streams, m_deserializers, held, heldAsReturned>>

\* GetChunk(chunkId). The id is not checked: one outside the table reads
\* past the arrays (or through the null table).
GetChunk(chunkId) ==
    /\ status = "alive"
    /\ IF ~ChunkIdDefined(m_offsetsTable, chunkId)
       THEN /\ \E u \in UndefinedOutcomes :
                 lastCall' = Call("GetChunk", chunkId, u, Indeterminate)
            /\ status' = "undefined"
            /\ UNCHANGED <<m_file, held, heldAsReturned>>
       ELSE LET r == GetChunkResult(disk.bytes, m_file, m_dataStart,
                                    m_offsetsTable, chunkId)
            IN  /\ lastCall' = Call("GetChunk", chunkId, r.err, r.chunk)
                /\ status' = "alive"
                /\ m_file' = [pos |-> r.pos]
                \* the caller keeps the chunk unless it holds one already
                /\ held' = IF r.err = "none" /\ held = Null THEN r.chunk ELSE held
                /\ heldAsReturned' = IF r.err = "none" /\ held = Null
                                      THEN r.chunk ELSE heldAsReturned
    /\ UNCHANGED <<threads, disk, m_offsetStart, m_dataStart, m_numBatches, m_numInputs,
                   m_streams, m_deserializers, m_offsetsTable>>

\* GetSequencesForChunk(chunkId, result): reads the chunk, parses it, and
\* describes each of its sequences. The chunk is dropped on return.
GetSequencesForChunk(chunkId) ==
    /\ status = "alive"
    /\ IF ~ChunkIdDefined(m_offsetsTable, chunkId)
       THEN /\ \E u \in UndefinedOutcomes :
                 lastCall' = Call("GetSequencesForChunk", chunkId, u, Indeterminate)
            /\ status' = "undefined"
            /\ UNCHANGED m_file
       ELSE LET r == GetChunkResult(disk.bytes, m_file, m_dataStart,
                                    m_offsetsTable, chunkId)
                numSequences == GetNumSequences(m_offsetsTable, chunkId)
            IN  /\ m_file' = IF TopBitSet(numSequences) THEN m_file
                               ELSE [pos |-> r.pos]
                /\ IF TopBitSet(numSequences)
                   THEN /\ lastCall' = Call("GetSequencesForChunk", chunkId,
                                            "length_error", Null)
                        /\ status' = "alive"
                   ELSE IF r.err # "none"
                   THEN /\ lastCall' = Call("GetSequencesForChunk", chunkId, r.err, Null)
                        /\ status' = "alive"
                   ELSE LET p == Parsed(r.chunk, m_deserializers) IN
                        IF numSequences > 0 /\ p.fault # "none"
                        THEN /\ lastCall' = Call("GetSequencesForChunk", chunkId,
                                                 p.fault, Indeterminate)
                             /\ status' = "undefined"
                        ELSE /\ lastCall' =
                                  Call("GetSequencesForChunk", chunkId, "none",
                                       [k \in 1..numSequences |->
                                          SequenceDescription(p.chunk, m_offsetsTable,
                                                              chunkId, k - 1)])
                             /\ status' = "alive"
    /\ UNCHANGED <<threads, disk, m_offsetStart, m_dataStart, m_numBatches, m_numInputs,
                   m_streams, m_deserializers, m_offsetsTable, held,
                   heldAsReturned>>

\* held->GetSequence(sequenceId, result), for an id of the held chunk: the
\* caller decodes a chunk it got from GetChunk.
ChunkGetSequence(sequenceId) ==
    /\ status = "alive"
    /\ held # Null
    /\ sequenceId >= held.m_startSequence
    /\ sequenceId < held.m_startSequence + held.m_numSequences
    /\ LET p == Parsed(held, m_deserializers) IN
       IF p.fault # "none"
       THEN /\ lastCall' = Call("Chunk::GetSequence", sequenceId, p.fault, Indeterminate)
            /\ status' = "undefined"
            /\ held' = held
       ELSE /\ lastCall' = Call("Chunk::GetSequence", sequenceId, "none",
                                 SequenceOf(p.chunk, sequenceId))
            /\ status' = "alive"
            /\ held' = p.chunk
    /\ UNCHANGED <<threads, disk, m_file, m_offsetStart, m_dataStart, m_numBatches,
                   m_numInputs, m_streams, m_deserializers, m_offsetsTable,
                   heldAsReturned>>

\* The caller drops its reference to the chunk it holds; the Chunk and its
\* buffer are destroyed.
ReleaseChunk ==
    /\ status = "alive"
    /\ held # Null
    /\ held' = Null
    /\ heldAsReturned' = Null
    /\ lastCall' = Call("ReleaseChunk", NoArg, "none", Null)
    /\ UNCHANGED <<threads, disk, status, m_file, m_offsetStart, m_dataStart, m_numBatches,
                   m_numInputs, m_streams, m_deserializers, m_offsetsTable>>

\* Sequence ids a caller asks a chunk for.
SequenceIds == 0..(MaxChunks * MaxSeqs - 1)

Next ==
    \/ \E rename \in Renames, garbage \in GarbageRecords :
          Initialize(rename, garbage)
    \/ GetChunkDescriptions
    \/ \E chunkId \in ChunkIds : GetChunk(chunkId)
    \/ \E chunkId \in ChunkIds : GetSequencesForChunk(chunkId)
    \/ \E sequenceId \in SequenceIds : ChunkGetSequence(sequenceId)
    \/ ReleaseChunk

Spec == Init /\ [][Next]_vars

\* ReadOffsetsTable(m_file, startOffset, numBatches) called on an initialized
\* store for a sub-range of the chunks (a private member, open to the friend
\* CNTKBinaryReaderTestRunner); the range lies within the file's chunks, as
\* the function asserts.
ReadOffsetsTableRange(startOffset, numBatches, garbage) ==
    /\ status = "alive"
    /\ m_offsetsTable # Null
    /\ startOffset + numBatches <= m_numBatches
    /\ LET read == ReadOffsetsTable(disk.bytes, startOffset, numBatches,
                                    m_numBatches, m_offsetStart, garbage)
       IN  /\ m_offsetsTable' = read.table
           /\ m_file' = [pos |-> read.pos]
    /\ lastCall' = Call("ReadOffsetsTable",
                        [startOffset |-> startOffset, numBatches |-> numBatches],
                        "none", Null)
    /\ UNCHANGED <<threads, disk, status, m_offsetStart, m_dataStart, m_numBatches,
                   m_numInputs, m_streams, m_deserializers, held, heldAsReturned>>

\* The store with its offsets table loaded range by range.
NextRange ==
    \/ \E rename \in Renames, garbage \in GarbageRecords :
          Initialize(rename, garbage)
    \/ \E startOffset \in ChunkIds, numBatches \in ChunkIds, garbage \in GarbageRecords :
          ReadOffsetsTableRange(startOffset, numBatches, garbage)
SpecRange == Init /\ [][NextRange]_vars

\* ------------------------------------------------------ threads on a store
\* A seek that leaves the file position where it is.
ReadChunkSeekNowhere(file, dataStart, table, chunkId) == file
\* The two file operations of ReadChunk, each atomic on the FILE, as a thread
\* runs them: the _fseeki64, and, from the size on, the allocation and the
\* fread at the position the file then has.
ReadChunkSeek(file, dataStart, table, chunkId) ==
    LET target == dataStart + GetOffset(table, chunkId)
    IN  [pos |-> IF target >= 0 THEN target ELSE file.pos]
ReadChunkFread(bytes, file, table, chunkId) ==
    LET chunkSize == GetChunkSize(table, chunkId)
        got       == Fread(bytes, file.pos, chunkSize)
    IN  IF TopBitSet(chunkSize)
        THEN [err |-> "bad_alloc", buffer |-> << >>, pos |-> file.pos]
        ELSE [err    |-> "none",
              buffer |-> got \o Zeros(chunkSize - Len(got)),
              pos    |-> file.pos + Len(got)]

\* The scheduler's lock around each seek+read pair: under the locking
\* discipline a thread enters ReadChunk only when no thread holds the lock.
LockFree(t) == threads.useLock => threads.holder = NoThread

\* Thread t calls GetChunk(chunkId) and runs ReadChunk up to and including
\* its seek; under the locking discipline it takes the lock first.
ThreadSeek(t, chunkId) ==
    /\ status = "alive"
    /\ ChunkIdDefined(m_offsetsTable, chunkId)
    /\ threads.of[t].pc \in {"idle", "returned"}
    /\ LockFree(t)
    /\ m_file' = ReadChunkSeek(m_file, m_dataStart, m_offsetsTable, chunkId)
    /\ threads' = [threads EXCEPT
                     !.holder = IF threads.useLock THEN t ELSE @,
                     !.of[t] = [IdleThread EXCEPT !.pc = "seeked",
                                                  !.chunkId = chunkId,
                                                  !.underLock = threads.useLock]]
    /\ UNCHANGED <<disk, status, m_offsetStart, m_dataStart, m_numBatches,
                   m_numInputs, m_streams, m_deserializers, m_offsetsTable,
                   held, heldAsReturned, lastCall>>

\* Thread t runs the rest of ReadChunk and of GetChunk: the fread at the
\* file's current position, the lock given back, the Chunk made.
ThreadRead(t) ==
    /\ status = "alive"
    /\ threads.of[t].pc = "seeked"
    /\ LET chunkId == threads.of[t].chunkId
           r == ReadChunkFread(disk.bytes, m_file, m_offsetsTable, chunkId)
           chunk == BinaryDataChunk(chunkId, GetStartIndex(m_offsetsTable, chunkId),
                                    GetNumSequences(m_offsetsTable, chunkId), r.buffer)
       IN  /\ m_file' = [pos |-> r.pos]
           /\ threads' = [threads EXCEPT
                 !.holder = IF @ = t THEN NoThread ELSE @,
                 !.of[t].pc = "returned",
                 !.of[t].chunk = IF r.err = "none" THEN chunk ELSE Null,
                 !.of[t].parse = [data |-> << >>, bytesProcessed |-> 0,
                                  buffer |-> r.buffer, fault |-> r.err]]
    /\ UNCHANGED <<disk, status, m_offsetStart, m_dataStart, m_numBatches,
                   m_numInputs, m_streams, m_deserializers, m_offsetsTable,
                   held, heldAsReturned, lastCall>>

\* The scheduler changes its discipline, locking or not, while no thread is
\* inside ReadChunk.
SwitchLocking ==
    /\ status = "alive"
    /\ m_offsetsTable # Null
    /\ \A t \in Threads : threads.of[t].pc # "seeked"
    /\ threads' = [threads EXCEPT !.useLock = ~@]
    /\ UNCHANGED <<disk, status, m_file, m_offsetStart, m_dataStart, m_numBatches,
                   m_numInputs, m_streams, m_deserializers, m_offsetsTable,
                   held, heldAsReturned, lastCall>>

\* ParseStreamStep with the byte offset taken from a cursor all chunks share:
\* the furthest offset any thread's decode has reached.
ParseStreamStepSharedCursor(chunk, deserializers, c, st) ==
    LET reached == {IF threads.of[t].parse = Null THEN 0
                    ELSE threads.of[t].parse.bytesProcessed : t \in Threads}
        cursor  == CHOOSE m \in reached : \A o \in reached : o <= m
        r == CodecGetSequencesForChunk(deserializers[c], chunk.m_numSequences,
                 chunk.m_startSequence, st.buffer, cursor)
    IN  [data           |-> Append(st.data, r.result),
         bytesProcessed |-> cursor + r.bytes,
         buffer         |-> r.buffer,
         fault          |-> r.fault]
\* One turn of ParseChunk's loop over the streams: stream c's codec decodes
\* the chunk's buffer at the byte offset the streams before it consumed.
ParseStreamStep(chunk, deserializers, c, st) ==
    LET r == CodecGetSequencesForChunk(deserializers[c], chunk.m_numSequences,
                 chunk.m_startSequence, st.buffer, st.bytesProcessed)
    IN  [data           |-> Append(st.data, r.result),
         bytesProcessed |-> st.bytesProcessed + r.bytes,
         buffer         |-> r.buffer,
         fault          |-> r.fault]

\* Thread t, which holds a chunk, decodes the next stream of it; it takes no
\* lock.
ThreadParse(t) ==
    /\ status = "alive"
    /\ threads.of[t].pc = "returned"
    /\ threads.of[t].chunk # Null
    /\ threads.of[t].c \in DOMAIN m_deserializers
    /\ threads.of[t].parse.fault = "none"
    /\ threads' = [threads EXCEPT
          !.of[t].c = @ + 1,
          !.of[t].parse = ParseStreamStep(threads.of[t].chunk, m_deserializers,
                                          threads.of[t].c, threads.of[t].parse)]
    /\ UNCHANGED <<disk, status, m_file, m_offsetStart, m_dataStart, m_numBatches,
                   m_numInputs, m_streams, m_deserializers, m_offsetsTable,
                   held, heldAsReturned, lastCall>>

\* The files the threaded runs open: MaxChunks chunks with a sparse and a
\* dense stream, and the one-chunk sparse example.
SharedFiles ==
    {FileDesc(m_versionNumber, <<SparseB, DenseA>>, Ramp(MaxChunks, 0), 0),
     FileDesc(m_versionNumber, <<SparseFive>>, <<2>>, 0)}
InitShared == Init /\ disk.desc \in SharedFiles
\* The public constructor: Initialize on the object just constructed, before
\* any thread has the store.
Construct(rename, garbage) == m_file = Null /\ Initialize(rename, garbage)

\* Threads that read chunks through the one file handle, with and without
\* the lock.
NextReaders ==
    \/ \E rename \in Renames, garbage \in GarbageRecords :
          Construct(rename, garbage)
    \/ \E t \in Threads, chunkId \in ChunkIds : ThreadSeek(t, chunkId)
    \/ \E t \in Threads : ThreadRead(t)
    \/ SwitchLocking
SpecReaders == InitShared /\ [][NextReaders]_vars

\* Threads that read chunks under the lock and decode them in parallel.
NextDecoders ==
    \/ \E rename \in Renames, garbage \in GarbageRecords :
          Construct(rename, garbage)
    \/ \E t \in Threads, chunkId \in ChunkIds : ThreadSeek(t, chunkId)
    \/ \E t \in Threads : ThreadRead(t)
    \/ \E t \in Threads : ThreadParse(t)
SpecDecoders == InitShared /\ [][NextDecoders]_vars

\* ------------------------------------------------------------ the claims
\* The table exists: Initialize got as far as ReadOffsetsTable.
TableLoaded == m_offsetsTable # Null
GetOps == {"GetChunkDescriptions", "GetSequencesForChunk", "GetChunk"}
\* The last call was GetChunk with an id below the number of chunks.
GetChunkInRange ==
    /\ lastCall.op = "GetChunk"
    /\ TableLoaded
    /\ lastCall.arg < m_numBatches

\* C1: after the offsets table is built, startIndex[0] = 0 and, for every
\* 0 < i < N, startIndex[i] = startIndex[i-1] + numSequences[i-1], the count
\* of chunk 0 included.
StartIndexIsRunningSum ==
    TableLoaded =>
        \A i \in DOMAIN m_offsetsTable.m_startIndex :
            GetStartIndex(m_offsetsTable, i) =
                IF i = 0 THEN 0
                ELSE GetStartIndex(m_offsetsTable, i - 1)
                     + GetNumSequences(m_offsetsTable, i - 1)

\* C2: for a file written with N chunks, GetChunkDescriptions returns exactly
\* N entries, entry i with chunk id i and the sample and sequence counts the
\* file was written with, in chunk-id order; the synthetic record is not
\* among them.
ChunkDescriptionsRoundTrip ==
    (lastCall.op = "GetChunkDescriptions" /\ TableLoaded) =>
        /\ lastCall.err = "none"
        /\ Len(lastCall.val) = Len(disk.desc.counts)
        /\ \A i \in 1..Len(disk.desc.counts) :
              /\ lastCall.val[i].m_id = i - 1
              /\ lastCall.val[i].m_numberOfSamples = ChunkSamples(disk.desc, i)
              /\ lastCall.val[i].m_numberOfSequences = disk.desc.counts[i]
\* GetChunkDescriptions has returned MaxChunks entries, one of them with a
\* sample count that differs from its sequence count.
ChunkDescriptionsRoundTripWitness ==
    /\ lastCall.op = "GetChunkDescriptions"
    /\ TableLoaded
    /\ lastCall.err = "none"
    /\ Len(lastCall.val) = MaxChunks
    /\ \E i \in 1..MaxChunks :
          lastCall.val[i].m_numberOfSamples # lastCall.val[i].m_numberOfSequences

\* C3: GetChunk(chunkId) with chunkId >= N fails with OutOfRange, reads
\* nothing and returns no Chunk.
GetChunkRejectsOutOfRange ==
    (lastCall.op = "GetChunk" /\ TableLoaded /\ lastCall.arg >= m_numBatches) =>
        /\ lastCall.err = "OutOfRange"
        /\ lastCall.val = Null

\* C4: when the file holds fewer than GetChunkSize(chunkId) bytes from
\* dataStart + GetOffset(chunkId) to its end, GetChunk(chunkId) fails with
\* TruncatedRead and returns no partly filled Chunk.
ShortReadRaisesTruncatedRead ==
    (/\ GetChunkInRange
     /\ ~TopBitSet(GetChunkSize(m_offsetsTable, lastCall.arg))
     /\ Len(disk.bytes) - (m_dataStart + GetOffset(m_offsetsTable, lastCall.arg))
           < GetChunkSize(m_offsetsTable, lastCall.arg)) =>
        /\ lastCall.err = "TruncatedRead"
        /\ lastCall.val = Null

\* C5: when the file's version field is not the supported version, Initialize
\* fails with FormatVersionMismatch before it reads another header field, no
\* offsets table is built, and no later GetChunkDescriptions,
\* GetSequencesForChunk or GetChunk call succeeds (m_file is set once
\* Initialize has opened the file).
VersionMismatchLeavesStoreUnusable ==
    (disk.desc.version # m_versionNumber /\ m_file # Null) =>
        /\ ~TableLoaded
        /\ lastCall.op = "Initialize" =>
              /\ lastCall.err = FormatVersionMismatch
              /\ m_file # Null => m_file.pos = SizeofInt64
        /\ lastCall.op \in GetOps => lastCall.err # "none"

\* C6: before Initialize has completed, every GetChunkDescriptions,
\* GetSequencesForChunk and GetChunk call fails with NotInitialized and
\* leaves the store as it was.
UninitializedCallsRaiseNotInitialized ==
    (~TableLoaded /\ lastCall.op \in GetOps) =>
        /\ lastCall.err = "NotInitialized"
        /\ status = "alive"

\* C7: any two GetChunk(i) calls, i < N, return byte-identical buffers,
\* whatever calls and decodes of earlier chunks happen between them: a
\* GetChunk for the id of the chunk the caller still holds returns the bytes
\* that chunk was returned with.
RepeatedGetChunkSameBytes ==
    (/\ GetChunkInRange
     /\ lastCall.err = "none"
     /\ heldAsReturned # Null
     /\ heldAsReturned.m_chunkId = lastCall.arg) =>
        lastCall.val.m_buffer = heldAsReturned.m_buffer
\* A second GetChunk(i) has returned after the chunk of the first was decoded
\* and its buffer rewritten in place.
RepeatedGetChunkWitness ==
    /\ GetChunkInRange
    /\ lastCall.err = "none"
    /\ held # Null
    /\ held.m_chunkId = lastCall.arg
    /\ held.m_data # << >>
    /\ held.m_buffer # heldAsReturned.m_buffer

\* The file holds all N offset records, with non-negative and non-decreasing
\* offsets.
OnDiskOffsetsNonDecreasing ==
    /\ PayloadStart(disk.desc) <= Len(disk.bytes)
    /\ \A i \in 1..Len(disk.desc.counts) :
          /\ ChunkOffset(disk.desc, i) >= 0
          /\ i > 1 => ChunkOffset(disk.desc, i - 1) <= ChunkOffset(disk.desc, i)
\* Every loaded chunk has GetOffset(i+1) >= GetOffset(i) and a chunk size
\* that is their difference, free of wrap-around.
TableOffsetsMonotone ==
    \A i \in 0..(m_numBatches - 1) :
        /\ GetOffset(m_offsetsTable, i + 1) >= GetOffset(m_offsetsTable, i)
        /\ GetChunkSize(m_offsetsTable, i) =
              GetOffset(m_offsetsTable, i + 1) - GetOffset(m_offsetsTable, i)
        /\ ~TopBitSet(GetChunkSize(m_offsetsTable, i))

\* C8 as stated: for a file whose N on-disk chunk offsets are non-decreasing,
\* GetOffset(i+1) >= GetOffset(i) and GetChunkSize(i) >= 0 without unsigned
\* wrap-around for every i in 0..N-1, the synthetic record included.
OffsetsMonotoneForSortedFile ==
    (TableLoaded /\ OnDiskOffsetsNonDecreasing) => TableOffsetsMonotone
\* C8 amended: the same, for a file whose last on-disk chunk offset is also
\* no larger than the file's size in bytes.
OffsetsMonotoneForSortedFileWithinSize ==
    (/\ TableLoaded
     /\ OnDiskOffsetsNonDecreasing
     /\ \A i \in 1..Len(disk.desc.counts) : ChunkOffset(disk.desc, i) <= Len(disk.bytes))
        => TableOffsetsMonotone
\* The table of a truncated file with MaxChunks chunks whose last offset is
\* still inside the file has been loaded.
OffsetsMonotoneWitness ==
    /\ TableLoaded
    /\ m_numBatches = MaxChunks
    /\ disk.desc.cut > 0
    /\ OnDiskOffsetsNonDecreasing
    /\ ChunkOffset(disk.desc, MaxChunks) > 0
    /\ ChunkOffset(disk.desc, MaxChunks) <= Len(disk.bytes)

\* C9: for every chunkId < N, GetChunk(chunkId) returns a Chunk whose buffer
\* holds exactly the GetChunkSize(chunkId) file bytes from dataStart +
\* GetOffset(chunkId) on, with chunkId, startIndex[chunkId] and
\* numSequences[chunkId].
ChunkHoldsExactFileBytes ==
    (GetChunkInRange /\ ~TopBitSet(GetChunkSize(m_offsetsTable, lastCall.arg))) =>
        LET chunkId == lastCall.arg
            start   == m_dataStart + GetOffset(m_offsetsTable, chunkId)
            size    == GetChunkSize(m_offsetsTable, chunkId)
        IN  /\ lastCall.err = "none"
            /\ lastCall.val.m_chunkId = chunkId
            /\ lastCall.val.m_startSequence = GetStartIndex(m_offsetsTable, chunkId)
            /\ lastCall.val.m_numSequences = GetNumSequences(m_offsetsTable, chunkId)
            /\ Len(lastCall.val.m_buffer) = size
            /\ start + size <= Len(disk.bytes)
            /\ \A k \in 1..size : lastCall.val.m_buffer[k] = disk.bytes[start + k]

\* C10: GetSequencesForChunk(chunkId) emits numSequences[chunkId] entries in
\* increasing local index c; entry c has id startIndex[chunkId] + c, the
\* given chunkId, a valid id, key (startIndex[chunkId] + c, 0) and, as sample
\* count, the largest decoded sample count of that sequence over the streams:
\* the largest one the codecs give on the chunk as read and, for a file that
\* is not truncated, the largest one the sequence was written with.
SequencesForChunkDescribed ==
    (lastCall.op = "GetSequencesForChunk" /\ lastCall.err = "none") =>
        LET chunkId == lastCall.arg
            startId == GetStartIndex(m_offsetsTable, chunkId)
            read    == GetChunkResult(disk.bytes, m_file, m_dataStart,
                                      m_offsetsTable, chunkId).chunk
            decoded == ParseChunk(read, m_deserializers).data
        IN  /\ Len(lastCall.val) = GetNumSequences(m_offsetsTable, chunkId)
            /\ \A c \in 0..(Len(lastCall.val) - 1) :
                  /\ lastCall.val[c + 1].m_id = startId + c
                  /\ lastCall.val[c + 1].m_chunkId = chunkId
                  /\ lastCall.val[c + 1].m_isValid
                  /\ lastCall.val[c + 1].m_key = [major |-> startId + c, minor |-> 0]
                  /\ lastCall.val[c + 1].m_numberOfSamples =
                        MaxSeq([k \in 1..Len(decoded) |->
                                   decoded[k][c + 1].m_numberOfSamples])
                  /\ disk.desc.cut = 0 =>
                        lastCall.val[c + 1].m_numberOfSamples =
                            SeqSamples(disk.desc.streams,
                                       FirstOrdinal(disk.desc, chunkId + 1) + c)
\* GetSequencesForChunk has described a chunk that starts at a non-zero
\* index and holds a sequence whose sparse stream has more samples than its
\* dense one, and a sequence where the dense stream has more.
SequencesForChunkWitness ==
    /\ lastCall.op = "GetSequencesForChunk"
    /\ lastCall.err = "none"
    /\ GetStartIndex(m_offsetsTable, lastCall.arg) > 0
    /\ Cardinality(DOMAIN m_deserializers) = 2
    /\ \E c \in 1..Len(lastCall.val) : lastCall.val[c].m_numberOfSamples > 1
    /\ \E c \in 1..Len(lastCall.val) : lastCall.val[c].m_numberOfSamples = 1

\* A stream header with a tag the reader does not know, and how far into
\* the header the reader gets before it meets that tag.
Offending(h) ==
    \/ h.matType \notin {0, 1}
    \/ h.matType = 1 /\ h.storageType # 0
    \/ h.elemType \notin {0, 1}
OffendingTagEnd(h) ==
    SizeofInt32 + Len(h.name) + SizeofInt32
    + (IF h.matType \notin {0, 1} THEN 0
       ELSE IF h.matType = 1 /\ h.storageType # 0 THEN SizeofInt32
       ELSE IF h.matType = 1 THEN 2 * SizeofInt32
       ELSE SizeofInt32)
\* The first offending stream of the file (1-based), 0 when there is none.
FirstOffending ==
    LET bad == {k \in 1..Len(disk.desc.streams) : Offending(disk.desc.streams[k])}
    IN  IF bad = {} THEN 0 ELSE CHOOSE k \in bad : \A j \in bad : k <= j

\* C11: when a stream header carries a storage-kind tag outside {0,1}, an
\* element-type tag outside {0,1} or, for a sparse stream, a storage-subtype
\* tag other than 0, Initialize fails with UnsupportedEncoding and builds no
\* offsets table; it fails at the first such stream in header order, having
\* read up to that stream's offending tag and described the streams before.
UnknownTagStopsInitialize ==
    (disk.desc.version = m_versionNumber /\ FirstOffending > 0) =>
        /\ ~TableLoaded
        /\ lastCall.op = "Initialize" =>
              LET k == FirstOffending
                  before == SumSeq([j \in 1..(k - 1) |->
                                       Len(StreamHeaderBytes(disk.desc.streams[j]))])
              IN  /\ lastCall.err = UnsupportedEncoding
                  /\ m_file # Null =>
                        m_file.pos = 2 * SizeofInt64 + SizeofInt32 + before
                                     + OffendingTagEnd(disk.desc.streams[k])
                  /\ \A j \in 0..(k - 2) :
                        /\ m_streams[j] # Null
                        /\ m_streams[j].m_id = j
                        /\ m_deserializers[j] # Null
                  /\ \A j \in (k - 1)..(m_numInputs - 1) : m_streams[j] = Null
\* Initialize has failed on a file whose second stream has an unknown
\* element type and whose third has an unknown storage kind.
UnknownTagWitness ==
    /\ lastCall.op = "Initialize"
    /\ lastCall.err = UnsupportedEncoding
    /\ status = "alive"
    /\ FirstOffending = 2
    /\ \E k \in 3..Len(disk.desc.streams) : Offending(disk.desc.streams[k])

\* The sparse region at the start of a chunk buffer b, as the layout has it:
\* int32 nnz, nnz values, nnz int32 row indices, then the column offsets.
SparseNnz(b) == BufInt32(b, 0)
SparseRowBase(b, elemSize) == SizeofInt32 + elemSize * SparseNnz(b)
SparseColBase(b, elemSize) == SparseRowBase(b, elemSize) + SizeofInt32 * SparseNnz(b)
SparseColOffset(b, elemSize, s) ==
    BufInt32(b, SparseColBase(b, elemSize) + SizeofInt32 * s)
\* Byte offset of the j-th (1-based) row index of sequence s, and s's slice
\* of raw indices.
SparseIndexAt(b, elemSize, s, j) ==
    SparseRowBase(b, elemSize)
    + SizeofInt32 * (SparseColOffset(b, elemSize, s) + j - 1)
SparseSlice(b, elemSize, s) ==
    [j \in 1..(SparseColOffset(b, elemSize, s + 1) - SparseColOffset(b, elemSize, s))
        |-> BufInt32(b, SparseIndexAt(b, elemSize, s, j))]
\* The caller has just decoded the chunk it holds, and the chunk's first
\* stream is sparse.
SparseChunkDecoded ==
    /\ lastCall.op = "Chunk::GetSequence"
    /\ lastCall.err = "none"
    /\ 0 \in DOMAIN m_deserializers
    /\ m_deserializers[0].m_matType = "sparse_csc"

\* The row-index slice a decoded sparse sequence q was given, as buffer b
\* holds it: m_totalNnzCount int32 values from byte offset m_indices on.
GivenIndexAt(q, j) == q.m_indices + SizeofInt32 * (j - 1)
GivenSlice(b, q) ==
    [j \in 1..q.m_totalNnzCount |-> BufInt32(b, GivenIndexAt(q, j))]

\* C12: sparse decode of a chunk gives, for every sequence s, totalNnz(s) =
\* colOffsets[s+1] - colOffsets[s]; nnzCounts(s)[k] = the number of raw
\* indices r of the slice s is given with r / numCols = k; a sample count
\* that is the length of nnzCounts(s), 1 + the largest r / numCols of the
\* slice; and every raw index r of the slice replaced in the buffer by
\* r % numCols.
SparseDecodeCounts ==
    SparseChunkDecoded =>
        LET raw      == heldAsReturned.m_buffer
            numCols  == m_deserializers[0].m_numCols
            elemSize == GetElemSizeBytes(m_deserializers[0])
            decoded  == held.m_data[1]
        IN  /\ Len(decoded) = held.m_numSequences
            /\ \A s \in 0..(held.m_numSequences - 1) :
                  LET q     == decoded[s + 1]
                      slice == GivenSlice(raw, q)
                  IN  /\ q.m_totalNnzCount = SparseColOffset(raw, elemSize, s + 1)
                                             - SparseColOffset(raw, elemSize, s)
                      /\ q.m_numberOfSamples = Len(q.m_nnzCounts)
                      /\ \A k \in 1..Len(q.m_nnzCounts) :
                            q.m_nnzCounts[k] =
                                Cardinality({j \in 1..Len(slice) :
                                                slice[j] \div numCols = k - 1})
                      /\ \A j \in 1..Len(slice) :
                            /\ slice[j] \div numCols < q.m_numberOfSamples
                            /\ BufInt32(held.m_buffer, GivenIndexAt(q, j))
                                  = slice[j] % numCols
                      /\ slice # << >> =>
                            \E j \in 1..Len(slice) :
                                slice[j] \div numCols = q.m_numberOfSamples - 1
\* The decoded chunk is the one with numCols 5, raw indices [2, 7, 12] and
\* column offsets [0, 2, 3]: nnzCounts [1, 1] and [0, 0, 1], indices
\* rewritten to [2, 2, 2].
SparseDecodeWitness ==
    /\ SparseChunkDecoded
    /\ m_deserializers[0].m_numCols = 5
    /\ SparseSlice(heldAsReturned.m_buffer, SizeofFloat, 0) = <<2, 7>>
    /\ SparseSlice(heldAsReturned.m_buffer, SizeofFloat, 1) = <<12>>
    /\ held.m_data[1][1].m_nnzCounts = <<1, 1>>
    /\ held.m_data[1][2].m_nnzCounts = <<0, 0, 1>>
    /\ \A k \in 0..2 :
          BufInt32(held.m_buffer,
                   SparseRowBase(heldAsReturned.m_buffer, SizeofFloat)
                   + SizeofInt32 * k) = 2

\* Some sequence of the sparse region at the start of b has row indices that
\* are not strictly increasing, or a negative one.
SparseSliceMalformed(b, elemSize, numSequences) ==
    \E s \in 0..(numSequences - 1) :
        LET slice == SparseSlice(b, elemSize, s)
        IN  \E j \in 1..Len(slice) :
                \/ slice[j] < 0
                \/ j > 1 /\ slice[j] <= slice[j - 1]

\* C13: sparse decode fails with MalformedSparseData, and returns no sequence
\* list, whenever the row indices of one sequence's slice are not strictly
\* increasing or an index is negative.
MalformedSparseDataRejected ==
    (/\ lastCall.op = "Chunk::GetSequence"
     /\ 0 \in DOMAIN m_deserializers
     /\ m_deserializers[0].m_matType = "sparse_csc"
     /\ SparseSliceMalformed(heldAsReturned.m_buffer,
                             GetElemSizeBytes(m_deserializers[0]),
                             heldAsReturned.m_numSequences)) =>
        /\ lastCall.err = "MalformedSparseData"
        /\ lastCall.val = Null

\* C14: every sequence produced by decoding, dense or sparse, and every
\* entry emitted by GetSequencesForChunk has a sample count of at least 1,
\* a sparse sequence with an empty slice and a file with no streams included.
SampleCountsAtLeastOne ==
    /\ (lastCall.op = "GetSequencesForChunk" /\ lastCall.err = "none") =>
          \A c \in 1..Len(lastCall.val) : lastCall.val[c].m_numberOfSamples >= 1
    /\ (lastCall.op = "Chunk::GetSequence" /\ lastCall.err = "none") =>
          \A k \in 1..Len(lastCall.val) : lastCall.val[k].m_numberOfSamples >= 1

\* The caller has just decoded the chunk it holds.
ChunkDecoded == lastCall.op = "Chunk::GetSequence" /\ lastCall.err = "none"
\* Streams of the store that are dense.
DenseStreams == {k \in DOMAIN m_deserializers : m_deserializers[k].m_matType = "dense"}

\* C15: dense decode of numSequences sequences gives, for every local index
\* c, a sequence with id startIndex + c, sample count 1, sample layout
\* numCols and data at byte offset c * numCols * elemSize of the stream's
\* region (the region of the first stream starts at byte 0 of the chunk); it
\* reports numSequences * numCols * elemSize bytes consumed, which is the
\* size of the region as written.
DenseDecodeLayout ==
    ChunkDecoded =>
        \A k \in DenseStreams :
            LET codec    == m_deserializers[k]
                h        == disk.desc.streams[k + 1]
                decoded  == held.m_data[k + 1]
                n        == held.m_numSequences
                consumed == DenseGetSequencesForChunk(codec, n, held.m_startSequence,
                                                      held.m_buffer, 0).bytes
            IN  /\ Len(decoded) = n
                /\ \A c \in 0..(n - 1) :
                      /\ decoded[c + 1].m_id = held.m_startSequence + c
                      /\ decoded[c + 1].m_numberOfSamples = 1
                      /\ decoded[c + 1].m_sampleLayout = h.numCols
                      /\ decoded[c + 1].m_data =
                            decoded[1].m_data + c * h.numCols * ElemSizeOf(h)
                      /\ k = 0 => decoded[c + 1].m_data = c * h.numCols * ElemSizeOf(h)
                /\ consumed = n * h.numCols * ElemSizeOf(h)
                /\ consumed = Len(StreamPayload(h, Ordinals(disk.desc, held.m_chunkId + 1)))
\* A chunk of float32 sequences with numCols 4 has been decoded: the data of
\* sequence 1 is at byte offset 16.
DenseDecodeWitness ==
    /\ ChunkDecoded
    /\ 0 \in DenseStreams
    /\ m_deserializers[0].m_numCols = 4
    /\ m_deserializers[0].m_elemType = "tfloat"
    /\ held.m_numSequences >= 2
    /\ held.m_data[1][2].m_data = 16

OnDiskRecord(j) ==
    [offset       |-> ChunkOffset(disk.desc, j + 1),
     numSequences |-> disk.desc.counts[j + 1],
     numSamples   |-> ChunkSamples(disk.desc, j + 1)]

\* C17: ReadOffsetsTable(startChunk, count) with startChunk + count <= N
\* fills records 0..count-1 from the on-disk records startChunk ..
\* startChunk+count-1 and sets record count to (file end offset, 0 sequences,
\* 0 samples) when startChunk + count = N and to the on-disk record
\* startChunk+count otherwise; GetChunkSize(i) is then defined for every
\* loaded i in 0..count-1, and is the size of the chunk's payload when the
\* next record is an on-disk one.
RangeLoadFillsRecords ==
    lastCall.op = "ReadOffsetsTable" =>
        LET startChunk == lastCall.arg.startOffset
            count      == lastCall.arg.numBatches
            t          == m_offsetsTable
        IN  /\ t.m_numBatches = count
            /\ DOMAIN t.m_diskOffsetsTable = 0..count
            /\ \A i \in 0..(count - 1) :
                  /\ t.m_diskOffsetsTable[i] = OnDiskRecord(startChunk + i)
                  /\ InTable(t, i) /\ InTable(t, i + 1)
                  /\ startChunk + i + 1 < m_numBatches =>
                        GetChunkSize(t, i) =
                            Len(ChunkPayload(disk.desc, startChunk + i + 1))
            /\ t.m_diskOffsetsTable[count] =
                  IF startChunk + count = m_numBatches
                  THEN [offset |-> Len(disk.bytes), numSequences |-> 0, numSamples |-> 0]
                  ELSE OnDiskRecord(startChunk + count)
\* A range that starts after chunk 0 and ends before the last chunk has been
\* loaded, the chunks holding sequences.
RangeLoadWitness ==
    /\ lastCall.op = "ReadOffsetsTable"
    /\ lastCall.arg.startOffset >= 1
    /\ lastCall.arg.numBatches >= 1
    /\ lastCall.arg.startOffset + lastCall.arg.numBatches < m_numBatches
    /\ GetNumSequences(m_offsetsTable, lastCall.arg.numBatches) > 0
    /\ GetChunkSize(m_offsetsTable, 0) > 0

\* The name stream header h gets under the rename map.
RenamedName(rename, h) ==
    IF h.name \in DOMAIN rename THEN rename[h.name] ELSE h.name

\* C18: after a successful Initialize over M declared streams, the stream
\* list and the codec list both have length M, entry k of each comes from
\* the k-th stream header in file order and has id k, and its name is
\* rename[name] when the header name is a key of the rename map handed in
\* and the header name unchanged otherwise.
StreamsFollowHeaders ==
    (lastCall.op = "Initialize" /\ lastCall.err = "none") =>
        LET M == Len(disk.desc.streams)
        IN  /\ DOMAIN m_streams = 0..(M - 1)
            /\ DOMAIN m_deserializers = 0..(M - 1)
            /\ \E rename \in Renames :
                  \A k \in 0..(M - 1) :
                      LET h == disk.desc.streams[k + 1]
                      IN  /\ m_streams[k].m_id = k
                          /\ m_streams[k].m_name = RenamedName(rename, h)
                          /\ m_streams[k].m_sampleLayout = h.numCols
                          /\ m_streams[k].m_elementType = ElementTypeOf(h.elemType)
                          /\ m_deserializers[k].m_numCols = h.numCols
                          /\ m_deserializers[k].m_elemType = ElementTypeOf(h.elemType)
                          /\ m_deserializers[k].m_matType =
                                (IF h.matType = 0 THEN "dense" ELSE "sparse_csc")

DescriptionsReadNothing ==
    [][/\ lastCall'.op = "GetChunkDescriptions" =>
             UNCHANGED <<m_file, m_offsetsTable, m_deserializers, m_streams>>
       /\ lastCall'.op # "Initialize" => UNCHANGED <<m_numBatches, m_offsetsTable>>
       /\ (lastCall'.op = "GetChunkDescriptions" /\ lastCall'.err = "none") =>
             lastCall'.val = ChunkDescriptions(m_numBatches', m_offsetsTable')
      ]_vars
\* GetChunkDescriptions has returned MaxChunks entries after a GetChunk moved
\* the file position into the payload.
DescriptionsReadNothingWitness ==
    /\ lastCall.op = "GetChunkDescriptions"
    /\ lastCall.err = "none"
    /\ TableLoaded
    /\ Len(lastCall.val) = MaxChunks
    /\ held # Null
    /\ m_file.pos < Len(disk.bytes)

\* C26: global sequence ids are unique across a file: for any two distinct
\* chunks i # j the id ranges [startIndex[i], startIndex[i] + numSequences[i])
\* and [startIndex[j], startIndex[j] + numSequences[j]) are disjoint.
SequenceIdRangesDisjoint ==
    TableLoaded =>
        \A i, j \in DOMAIN m_offsetsTable.m_startIndex :
            i # j =>
                LET lo(c) == GetStartIndex(m_offsetsTable, c)
                    hi(c) == lo(c) + GetNumSequences(m_offsetsTable, c)
                IN  \A id \in lo(i)..(hi(i) - 1) : ~(lo(j) <= id /\ id < hi(j))

\* The file is whole and every stream of it is one the codecs decode as
\* written.
WellFormedFile ==
    /\ disk.desc.version = m_versionNumber
    /\ disk.desc.cut = 0
    /\ \A k \in 1..Len(disk.desc.streams) : ~Offending(disk.desc.streams[k])

\* C27: for a well-formed, untruncated file every chunk's read range lies
\* inside the file: for all i < N, dataStart + GetOffset(i) + GetChunkSize(i)
\* <= file size, and the last chunk's size is the number of payload bytes
\* from that chunk's start to the end of the file.
ReadRangesInsideFile ==
    (TableLoaded /\ WellFormedFile) =>
        /\ \A i \in 0..(m_numBatches - 1) :
              m_dataStart + GetOffset(m_offsetsTable, i)
              + GetChunkSize(m_offsetsTable, i) <= Len(disk.bytes)
        /\ m_numBatches >= 1 =>
              GetChunkSize(m_offsetsTable, m_numBatches - 1)
                  = Len(disk.bytes)
                    - (m_dataStart + GetOffset(m_offsetsTable, m_numBatches - 1))

\* C30: startIndex is non-decreasing over the loaded chunks: for every i with
\* 0 <= i < N - 1, startIndex[i] <= startIndex[i+1], when every on-disk
\* numSequences value is non-negative.
StartIndexNonDecreasing ==
    (/\ TableLoaded
     /\ \A c \in 0..(m_numBatches - 1) : GetNumSequences(m_offsetsTable, c) >= 0) =>
        \A i \in 0..(m_numBatches - 2) :
            GetStartIndex(m_offsetsTable, i) <= GetStartIndex(m_offsetsTable, i + 1)
\* A table of MaxChunks chunks, each holding sequences, whose last start
\* index is above the first two.
StartIndexNonDecreasingWitness ==
    /\ TableLoaded
    /\ m_numBatches = MaxChunks
    /\ \A c \in 0..(m_numBatches - 1) : GetNumSequences(m_offsetsTable, c) >= 1
    /\ GetStartIndex(m_offsetsTable, MaxChunks - 1)
          > GetStartIndex(m_offsetsTable, MaxChunks - 2)

\* C23: decoding the same chunk buffer with the same codecs a second time
\* yields, for every sequence of every stream, sparse or dense, the same
\* sample count, the same per-sample nonzero counts and the same indices as
\* the first decode.
SecondDecodeSameResult ==
    ChunkDecoded =>
        LET again == ParseChunk(held, m_deserializers)
        IN  /\ again.fault = "none"
            /\ again.buffer = held.m_buffer
            /\ \A k \in 1..Len(held.m_data) :
                  \A s \in 1..Len(held.m_data[k]) :
                      again.data[k][s] = held.m_data[k][s]

RECURSIVE BytesBefore(_, _, _)
\* The sum, over the streams j < k, of the bytes-consumed value stream j's
\* codec returns when it is handed the chunk's buffer at the sum before it.
BytesBefore(chunk, deserializers, k) ==
    IF k = 0 THEN 0
    ELSE LET before == BytesBefore(chunk, deserializers, k - 1)
         IN  before + CodecGetSequencesForChunk(deserializers[k - 1],
                          chunk.m_numSequences, chunk.m_startSequence,
                          chunk.m_buffer, before).bytes

\* C24: within a chunk streams lie one after the other in declaration order:
\* the codec of stream k is handed the buffer at the byte offset that is the
\* sum of the bytes consumed by the streams before it, and for a well-formed
\* chunk the bytes consumed by all M streams sum to GetChunkSize(chunkId).
StreamsFillTheChunk ==
    (ChunkDecoded /\ WellFormedFile) =>
        LET M == Cardinality(DOMAIN m_deserializers)
        IN  /\ \A k \in 0..(M - 1) :
                  held.m_data[k + 1] =
                      CodecGetSequencesForChunk(m_deserializers[k],
                          held.m_numSequences, held.m_startSequence,
                          heldAsReturned.m_buffer,
                          BytesBefore(heldAsReturned, m_deserializers, k)).result
            /\ BytesBefore(heldAsReturned, m_deserializers, M)
                  = GetChunkSize(m_offsetsTable, held.m_chunkId)

\* C28: after sparse decode of a chunk whose row indices are non-negative,
\* with numCols >= 1, for every sequence s the entries of nnzCounts(s) sum to
\* totalNnz(s) = colOffsets[s+1] - colOffsets[s], and every rewritten row
\* index of the slice s was given lies in [0, numCols).
SparseCountsSumToTotal ==
    SparseChunkDecoded =>
        LET raw      == heldAsReturned.m_buffer
            numCols  == m_deserializers[0].m_numCols
            elemSize == GetElemSizeBytes(m_deserializers[0])
        IN  \A s \in 0..(held.m_numSequences - 1) :
                LET q == held.m_data[1][s + 1]
                IN  (/\ numCols >= 1
                     /\ \A j \in 1..q.m_totalNnzCount : GivenSlice(raw, q)[j] >= 0) =>
                        /\ q.m_totalNnzCount = SparseColOffset(raw, elemSize, s + 1)
                                               - SparseColOffset(raw, elemSize, s)
                        /\ SumSeq(q.m_nnzCounts) = q.m_totalNnzCount
                        /\ \A j \in 1..q.m_totalNnzCount :
                              /\ 0 <= GivenSlice(held.m_buffer, q)[j]
                              /\ GivenSlice(held.m_buffer, q)[j] < numCols
\* A decoded sparse chunk with a sequence that has two nonzeros in one sample
\* and a row index the decode has changed.
SparseCountsSumWitness ==
    /\ SparseChunkDecoded
    /\ \E s \in 1..Len(held.m_data[1]) :
          LET q == held.m_data[1][s]
          IN  /\ \E k \in 1..Len(q.m_nnzCounts) : q.m_nnzCounts[k] = 2
              /\ GivenSlice(held.m_buffer, q) # GivenSlice(heldAsReturned.m_buffer, q)

\* C29: in sparse decode the values and row-index slice given to sequence s
\* begins at element colOffsets[s] of the chunk's values and row-index arrays
\* and has length colOffsets[s+1] - colOffsets[s], for every s in
\* [0, numSequences) and every column-offset array, one whose first entry is
\* not 0 included.
SparseSliceAtColumnOffset ==
    SparseChunkDecoded =>
        LET raw      == heldAsReturned.m_buffer
            elemSize == GetElemSizeBytes(m_deserializers[0])
        IN  \A s \in 0..(held.m_numSequences - 1) :
                LET q == held.m_data[1][s + 1]
                IN  /\ q.m_data = SizeofInt32
                                  + elemSize * SparseColOffset(raw, elemSize, s)
                    /\ q.m_indices = SparseRowBase(raw, elemSize)
                                     + SizeofInt32 * SparseColOffset(raw, elemSize, s)
                    /\ q.m_totalNnzCount = SparseColOffset(raw, elemSize, s + 1)
                                           - SparseColOffset(raw, elemSize, s)

\* Size of the header of the file on disk: 20 bytes, then, per stream,
\* 4 + nameLen + 4 + (8 if dense, 12 if sparse).
HeaderSize ==
    20 + SumSeq([k \in 1..Len(disk.desc.streams) |->
                    LET h == disk.desc.streams[k]
                    IN  4 + Len(h.name) + 4 + (IF h.matType = 1 THEN 12 ELSE 8)])
\* dataStart is offsetTableStart + N * 16 and is the position of the file's
\* first payload byte, and a GetChunk on the whole file returns, where the
\* payload of its chunk lies, that payload.
DataStartAtPayload ==
    /\ m_offsetStart = HeaderSize
    /\ m_dataStart = m_offsetStart + m_numBatches * SizeofDiskOffsetsTable
    /\ m_dataStart = PayloadStart(disk.desc)
    /\ (GetChunkInRange /\ lastCall.err = "none" /\ disk.desc.cut = 0) =>
          LET payload == ChunkPayload(disk.desc, lastCall.arg + 1)
          IN  \A k \in 1..Len(payload) : lastCall.val.m_buffer[k] = payload[k]

\* C25 as stated: for a file laid out as header, then numChunks + 1 16-byte
\* offset records, then payload, the dataStart that Initialize computes is
\* the position of the first payload byte, and GetChunk returns no bytes of
\* the offsets table.
DataStartAfterAllRecords ==
    (TableLoaded /\ HasEndRecord(disk.desc)) => DataStartAtPayload
\* C25: for a file laid out as header, then numChunks 16-byte offset
\* records, then payload, the dataStart that Initialize computes
\* (offsetTableStart + N * 16, offsetTableStart being the header size) is the
\* position of the first payload byte, and GetChunk returns no bytes of the
\* offsets table.
DataStartAfterChunkRecords ==
    (TableLoaded /\ ~HasEndRecord(disk.desc)) => DataStartAtPayload
\* GetChunk has returned the second chunk of a whole file without an end
\* record that declares a sparse and a dense stream.
DataStartWitness ==
    /\ GetChunkInRange
    /\ lastCall.err = "none"
    /\ lastCall.arg = 1
    /\ ~HasEndRecord(disk.desc)
    /\ disk.desc.cut = 0
    /\ Len(disk.desc.streams) = 2
    /\ Len(ChunkPayload(disk.desc, 2)) > 0

\* The chunk a GetChunk(chunkId) that runs alone returns.
ChunkReadAlone(chunkId) ==
    GetChunkRead(disk.bytes, m_file, m_dataStart, m_offsetsTable, chunkId).chunk
\* Thread t's GetChunk has returned a chunk that holds its own chunk's bytes:
\* the chunk a call running alone returns, whose buffer is, as far as the
\* file reaches, the file's bytes from dataStart + GetOffset(chunkId) on.
ReturnedOwnChunk(t) ==
    LET th    == threads.of[t]
        start == m_dataStart + GetOffset(m_offsetsTable, th.chunkId)
    IN  /\ th.chunk = ChunkReadAlone(th.chunkId)
        /\ \A k \in 1..Len(th.chunk.m_buffer) :
              start + k <= Len(disk.bytes) =>
                  th.chunk.m_buffer[k] = disk.bytes[start + k]

\* C21: when several threads call GetChunk on one store with each seek+read
\* pair run under a common lock, every call returns exactly the bytes of its
\* own chunk. Without the lock the interleaving seek A, seek B, read A is
\* reachable, and a call returns bytes that are not its chunk's
\* (LockedAndUnlockedCallsWitness).
LockedCallsReturnOwnChunk ==
    \A t \in Threads :
        (threads.of[t].pc = "returned" /\ threads.of[t].underLock) =>
            ReturnedOwnChunk(t)
\* One thread's call under the lock has returned its chunk, and, the lock
\* given up since, another thread's call has returned a buffer that is not
\* its chunk's, its seek having been followed by a third thread's seek.
LockedAndUnlockedCallsWitness ==
    \E t, u, v \in Threads :
        /\ t # u /\ u # v /\ t # v
        /\ threads.of[t].pc = "returned"
        /\ threads.of[t].underLock
        /\ threads.of[t].chunk.m_buffer # << >>
        /\ ReturnedOwnChunk(t)
        /\ threads.of[u].pc = "returned"
        /\ ~threads.of[u].underLock
        /\ ~ReturnedOwnChunk(u)
        /\ threads.of[v].pc = "seeked"
        /\ threads.of[v].chunkId # threads.of[u].chunkId

\* C22: decoding touches no state shared between Chunk instances: when
\* threads decode different Chunk instances in any interleaving, what each
\* thread has decoded is what decoding its chunk alone gives, and the codecs'
\* fields (storage kind, element type, numCols) stay as Initialize set them.
ParallelDecodeAsAlone ==
    /\ \A t \in Threads :
          (threads.of[t].pc = "returned" /\ threads.of[t].chunk # Null) =>
              LET th    == threads.of[t]
                  alone == ParseChunk(th.chunk, m_deserializers)
              IN  /\ Len(th.parse.data) = th.c
                  /\ \A k \in 1..th.c : th.parse.data[k] = alone.data[k]
                  /\ (th.c \notin DOMAIN m_deserializers \/ th.parse.fault # "none")
                        => th.parse = alone
    /\ m_offsetsTable # Null =>
          \A k \in DOMAIN m_deserializers :
              LET h == disk.desc.streams[k + 1]
              IN  /\ m_deserializers[k].m_matType
                        = (IF h.matType = 1 THEN "sparse_csc" ELSE "dense")
                  /\ m_deserializers[k].m_elemType
                        = (IF h.elemType = 1 THEN "tdouble" ELSE "tfloat")
                  /\ m_deserializers[k].m_numCols = h.numCols
\* Two threads have each decoded their own chunk to the end, one of them
\* having started while the other was part of the way through its streams,
\* and a third is part of the way through another.
ParallelDecodeWitness ==
    \E t, u, v \in Threads :
        /\ t # u /\ u # v /\ t # v
        /\ \A w \in {t, u, v} :
              threads.of[w].pc = "returned" /\ threads.of[w].chunk # Null
        /\ threads.of[t].chunkId # threads.of[u].chunkId
        /\ threads.of[t].c = 2 /\ threads.of[u].c = 2 /\ threads.of[v].c = 1
        /\ threads.of[t].parse.buffer # threads.of[t].chunk.m_buffer

====
